---- MODULE Spec2Model ----
(***************************************************************************)
(* Model of the release mirror synchronisation of arch-release-promotion:  *)
(* ProjectFiles.sync and the operations it drives (files.py), over an      *)
(* abstract file system holding the sync directory, the scratch            *)
(* directories of one version and the upstream bundles.                    *)
(***************************************************************************)
EXTENDS Naturals, Sequences, FiniteSets, TLC

\* Number of upstream release versions; version strings are modelled by
\* 1..MaxVersion, ordered as Python orders the strings.
MaxVersion == 2

\* Number of passes of one behaviour that are interrupted.
MaxCrashes == 1

Versions == 1..MaxVersion

\* Release type names: "a" and "b" can be configured, "c" never is.
TypeNames == {"a", "b", "c"}

\* File names inside a version directory; "iso.sig" has the suffix ".sig".
FileNames == {"iso", "iso.sig"}
SigFiles == {"iso.sig"}

VARIABLES
    releases,      \* project_config.releases, a sequence of release type names
    promoted,      \* ProjectFiles.promoted_releases, a sequence of versions
    upstream,      \* the bundles the project host offers for each version
    mirror,        \* the sync directory: one subdirectory per release type
    pc,            \* position of the running pass
    outcome,       \* "none" while running, then "ok", "crash" or the step
                   \* of sync() that raised
    idx,           \* position of the version loop in promoted
    ti,            \* position of the release type loops in releases
    promoDir,      \* unpacked promotion bundle (promotion_temp_dir)
    buildDir,      \* unpacked build bundle (build_temp_dir / output_dir)
    todo,          \* descriptors of the promotion bundle not yet handled
    cur,           \* release type of the descriptor being handled
    need,          \* last result of _project_version_requires_sync
    change_state,  \* the booleans collected by sync()
    acc,           \* the local list `state` of the step in progress, as any(state)
    crashes,       \* number of passes that were interrupted so far
    before,        \* the mirror when the step in progress began (observation)
    ret,           \* result of the last direct call of a checker function
    hist,          \* observations on the running pass, read by the properties
    sync_config,   \* project_config.sync_config: temp_in_sync_dir, whether
                   \* a last_updated_file is configured, and the backlog
    scratch        \* scratch directories ".tmp-*" a killed pass left behind:
                   \* in the sync directory (sync), in the user's temporary
                   \* directory (tmp)

vars == <<releases, promoted, upstream, mirror, pc, outcome, idx, ti,
          promoDir, buildDir, todo, cur, need, change_state, acc, crashes,
          before, ret, hist, sync_config, scratch>>

----------------------------------------------------------------------------
(* The file system.                                                        *)

\* Names an entry of a release type directory can have:
\*   <<"latest",0>>  latest            <<"dir",v>>      <type>-<v>
\*   <<"json",v>>    <type>-<v>.json   <<"torrent",v>>  <type>-<v>.torrent
\*   <<"odd",v>>     a torrent file of version v under any other name
\*   <<"other",0>>   a name the engine never uses
NoName == <<"none", 0>>
Latest == <<"latest", 0>>
Other == <<"other", 0>>
Names == {Latest, Other} \cup ({"dir", "json", "torrent", "odd"} \X Versions)

\* Release (release.py), reduced to the fields the engine reads. name and
\* version are those of the path the descriptor is stored under.
\* torrent: "none" (torrent_file is None), "std" (<name>-<version>.torrent)
\* or "odd" (any other file name).
NoDesc == [files |-> {}, torrent |-> "none"]
Descs == [files : SUBSET FileNames, torrent : {"none", "std", "odd"}]

NoEntry == [kind |-> "none", files |-> {}, target |-> NoName, desc |-> NoDesc]
FileEntry == [kind |-> "file", files |-> {}, target |-> NoName, desc |-> NoDesc]
JsonEntry(d) == [kind |-> "file", files |-> {}, target |-> NoName, desc |-> d]
DirEntry(fs) == [kind |-> "dir", files |-> fs, target |-> NoName, desc |-> NoDesc]
LinkEntry(n) == [kind |-> "link", files |-> {}, target |-> n, desc |-> NoDesc]

EmptyEntries == [n \in Names |-> NoEntry]
NoTypeDir == [exists |-> FALSE, entries |-> EmptyEntries]
EmptyTypeDir == [exists |-> TRUE, entries |-> EmptyEntries]
EmptyMirror == [t \in TypeNames |-> NoTypeDir]

\* What a path resolves to: a symbolic link is followed once (its target is
\* never a link itself); a link whose target is missing resolves to nothing.
Resolve(base, n) ==
    LET e == base.entries[n]
    IN  IF ~base.exists THEN NoEntry
        ELSE IF e.kind = "link"
             THEN (IF e.target \in Names THEN base.entries[e.target] ELSE NoEntry)
             ELSE e

\* pathlib.Path.exists / is_dir / is_file follow links, is_symlink does not.
PathExists(base, n) == Resolve(base, n).kind # "none"
PathIsDir(base, n) == Resolve(base, n).kind = "dir"
PathIsFile(base, n) == Resolve(base, n).kind = "file"
PathIsSymlink(base, n) == base.exists /\ base.entries[n].kind = "link"

\* (release_dir / file).exists()
FileExistsIn(base, n, f) == PathIsDir(base, n) /\ f \in Resolve(base, n).files

\* The file name release.torrent_file stands for.
TorrentName(tf, v) == IF tf = "std" THEN <<"torrent", v>> ELSE <<"odd", v>>

----------------------------------------------------------------------------
(* Completeness checker.                                                   *)

load_release_from_json_payload(base, n) == Resolve(base, n).desc

_is_release_type_synced_no_torrent(m, name, version) ==
    LET release_base == m[name]
        release_json == <<"json", version>>
        release == load_release_from_json_payload(release_base, release_json)
    IN  IF ~PathExists(release_base, release_json) THEN FALSE
        ELSE \A f \in release.files :
                 FileExistsIn(release_base, <<"dir", version>>, f)

_is_release_type_synced(m, name, version) ==
    LET release_base == m[name]
        release_json == <<"json", version>>
        release == load_release_from_json_payload(release_base, release_json)
        release_dir == <<"dir", version>>
    IN  IF ~PathExists(release_base, release_json) THEN FALSE
        ELSE IF release.torrent # "none"
                /\ ~PathExists(release_base, TorrentName(release.torrent, version))
             THEN FALSE
        ELSE IF \E f \in release.files :
                    ~FileExistsIn(release_base, release_dir, f)
             THEN FALSE
        ELSE TRUE

_project_version_requires_sync_all(m, rels, version) ==
    \A i \in 1..Len(rels) : ~_is_release_type_synced(m, rels[i], version)

_project_version_requires_sync(m, rels, version) ==
    LET release_type_states ==
            [i \in 1..Len(rels) |-> ~_is_release_type_synced(m, rels[i], version)]
    IN  \E i \in 1..Len(rels) : release_type_states[i]

----------------------------------------------------------------------------
(* Upstream bundles and the scratch directories they are unpacked into.    *)

\* What the promotion bundle holds for one release type: the descriptor
\* <type>/<type>-<v>.json (json, with the Release it deserialises to), the
\* torrent files in <type>/, the directory <type>/<type>-<v>/ and the
\* signature files in it.
NoPromo == [json |-> FALSE, desc |-> NoDesc, torrents |-> {}, dir |-> FALSE,
            sigs |-> {}]
\* What the build bundle holds for one release type under output_dir: the
\* directory <type>/<type>-<v>/ with its files, torrent files and a
\* descriptor in <type>/.
NoBuild == [dir |-> FALSE, files |-> {}, torrents |-> {}, json |-> FALSE]

NoPromoDir == [t \in TypeNames |-> NoPromo]
NoBuildDir == [t \in TypeNames |-> NoBuild]

\* A version whose bundles are what promote_project_release and the build
\* job produce for the release types "a" (signed, with torrent) and "b".
CompleteBundle ==
    [links |-> 1,
     promo |-> [t \in TypeNames |->
                  IF t = "a"
                  THEN [json |-> TRUE,
                        desc |-> [files |-> {"iso", "iso.sig"}, torrent |-> "std"],
                        torrents |-> {"std"}, dir |-> TRUE, sigs |-> {"iso.sig"}]
                  ELSE IF t = "b"
                  THEN [json |-> TRUE,
                        desc |-> [files |-> {"iso"}, torrent |-> "none"],
                        torrents |-> {}, dir |-> TRUE, sigs |-> {}]
                  ELSE NoPromo],
     has_build |-> TRUE,
     build |-> [t \in TypeNames |->
                  IF t \in {"a", "b"}
                  THEN [dir |-> TRUE, files |-> {"iso"}, torrents |-> {},
                        json |-> FALSE]
                  ELSE NoBuild]]

\* The other bundles a version can come with, each differing from the
\* complete one in one respect.
Shapes == {"complete", "two_links", "no_build", "no_desc_b", "no_desc",
           "odd_torrent", "odd_torrent_built", "no_file", "no_torrent",
           "no_sig", "no_files", "foreign", "no_build_dir"}

BundleOf(shape) ==
    LET c == CompleteBundle
    IN  CASE shape = "complete" -> c
          [] shape = "two_links" -> [c EXCEPT !.links = 2]
          [] shape = "no_build" -> [c EXCEPT !.has_build = FALSE,
                                             !.build = NoBuildDir]
          [] shape = "no_desc_b" -> [c EXCEPT !.promo["b"] = NoPromo]
          [] shape = "no_desc" -> [c EXCEPT !.promo = NoPromoDir]
          [] shape = "odd_torrent" ->
                 [c EXCEPT !.promo["a"].desc.torrent = "odd",
                           !.promo["a"].torrents = {"odd"}]
          [] shape = "odd_torrent_built" ->
                 [c EXCEPT !.promo["a"].desc.torrent = "odd",
                           !.promo["a"].torrents = {"odd"},
                           !.build["a"].torrents = {"std"}]
          [] shape = "no_file" -> [c EXCEPT !.build["a"].files = {}]
          [] shape = "no_torrent" -> [c EXCEPT !.promo["a"].torrents = {}]
          [] shape = "no_sig" -> [c EXCEPT !.promo["a"].sigs = {}]
          [] shape = "no_files" ->
                 [c EXCEPT !.promo["b"].desc.files = {},
                           !.build["b"].files = {}]
          [] shape = "foreign" ->
                 [c EXCEPT !.promo["c"] = c.promo["b"],
                           !.build["c"] = c.build["b"]]
          [] shape = "no_build_dir" -> [c EXCEPT !.build["a"] = NoBuild]

\* Upstream states: at most one version departs from the complete bundle.
Upstreams ==
    {[v \in Versions |-> IF v = bad THEN BundleOf(shape) ELSE CompleteBundle] :
        bad \in Versions, shape \in Shapes}

\* The descriptor of release type t says what the engine can place so that
\* the checker finds it: a descriptor, the torrent under the standard name.
IsCompleteBundle(b, rels) ==
    /\ b.links = 1
    /\ b.has_build
    /\ \A i \in 1..Len(rels) :
          LET p == b.promo[rels[i]]
              o == b.build[rels[i]]
          IN  /\ p.json /\ p.dir /\ o.dir
              /\ p.desc.torrent \in {"none", "std"}
              /\ p.desc.torrent = "std" => "std" \in p.torrents
              /\ p.desc.files \subseteq (o.files \cup p.sigs)

\* Upstream.get_releases answers with any list of distinct version tags
\* (the listing is the project host's; releases come and go between passes).
RECURSIVE SeqsOver(_, _)
SeqsOver(S, n) ==
    IF n = 0 THEN {<<>>}
    ELSE LET shorter == SeqsOver(S, n - 1)
         IN  shorter \cup
             {Append(s, x) : s \in {q \in shorter : Len(q) = n - 1}, x \in S}

Range(s) == {s[i] : i \in 1..Len(s)}
PromotedLists ==
    {s \in SeqsOver(Versions, MaxVersion) : Cardinality(Range(s)) = Len(s)}

\* sorted(self.promoted_releases)[-1]
latest_version(rel) == CHOOSE v \in Range(rel) : \A w \in Range(rel) : w <= v

----------------------------------------------------------------------------
(* One pass: ProjectFiles.sync, version loop.                              *)

\* Observations on the running pass (they influence no step):
\*   mutated    some step of this pass changed the mirror
\*   notified   _set_last_update_file_timestamp was called
\*   builds     versions whose build bundle was requested
\*   calls      versions _sync_version was called for, in call order
\*   validated  release types that passed validation in the current version
\*   moved      release types handed to the mover in the current version
\*   latest_ran, prune_ran   the two steps after the loop were entered
\*   prev_same  the pass before this one returned normally, with the same
\*              promoted releases
\*   recovering the pass began on an empty mirror or after an interrupted pass
NoHist == [mutated |-> FALSE, notified |-> FALSE, builds |-> {}, calls |-> <<>>,
           validated |-> {}, moved |-> {}, latest_ran |-> FALSE,
           prune_ran |-> FALSE, prev_same |-> FALSE, recovering |-> FALSE]

NoRet == [op |-> "none", name |-> "a", version |-> 0, val |-> FALSE]

AnyTrue_last(flags) == Len(flags) > 0 /\ flags[Len(flags)]

\* any(change_state), any(state)
AnyTrue(flags) == \E i \in 1..Len(flags) : flags[i]

\* An exception leaves sync(): the TemporaryDirectory contexts remove the
\* scratch directories on the way out, nothing after the raise is run.
RaisedIn == {"promo", "build", "merge", "validate", "mover", "latest", "prune"}
IsError(o) == o \in RaisedIn

Raised_keeping_scratch(step) ==
    /\ pc' = "done"
    /\ outcome' = step
    /\ UNCHANGED <<promoDir, buildDir, todo>>

Raised(step) ==
    /\ pc' = "done"
    /\ outcome' = step
    /\ promoDir' = NoPromoDir
    /\ buildDir' = NoBuildDir
    /\ todo' = {}

Returned_early(flag) ==
    /\ change_state' = Append(change_state, flag)
    /\ idx' = idx + 1
    /\ pc' = "latest"
    /\ promoDir' = NoPromoDir
    /\ buildDir' = NoBuildDir
    /\ todo' = {}
    /\ before' = mirror

\* _sync_version returns: the with-blocks remove both scratch directories
\* and the loop of sync() goes on to the next promoted release.
Returned(flag) ==
    /\ change_state' = Append(change_state, flag)
    /\ idx' = idx + 1
    /\ pc' = IF idx + 1 > Len(promoted) THEN "latest" ELSE "promo"
    /\ promoDir' = NoPromoDir
    /\ buildDir' = NoBuildDir
    /\ todo' = {}
    /\ before' = mirror

NoScratch == [sync |-> FALSE, tmp |-> FALSE]
SyncConfigs == [temp_in_sync_dir : BOOLEAN, last_updated_file : BOOLEAN,
                backlog : 1..MaxVersion]

\* for child in sync_config.directory.iterdir():
\*     if child.name.startswith(".tmp-"): shutil.rmtree(child)
remove_stale(sc) == [sc EXCEPT !.sync = FALSE]

\* Positions of a pass inside the with-block of the scratch directory.
InScratchScope(p) ==
    p \in {"promo", "check", "build", "merge", "validate", "mvClear",
           "mvMkdir", "mvFiles", "mvTorrent", "mvJson"}

\* tempfile.TemporaryDirectory(prefix=".tmp-", dir=<sync directory> if
\* temp_in_sync_dir else None): a pass killed inside the with-block leaves
\* the directory where it was made.
left_behind(sc, cfg, p) ==
    IF ~InScratchScope(p) THEN sc
    ELSE IF cfg.temp_in_sync_dir THEN [sc EXCEPT !.sync = TRUE]
    ELSE [sc EXCEPT !.tmp = TRUE]

\* ProjectFiles.__init__ and the start of sync(): the promoted releases are
\* fetched and the loop over them is entered.
StartPass(list) ==
    /\ pc \in {"idle", "done"}
    /\ Len(list) <= sync_config.backlog
    /\ promoted' = list
    /\ pc' = IF list = <<>> THEN "latest" ELSE "promo"
    /\ outcome' = "none"
    /\ idx' = 1
    /\ ti' = 1
    /\ change_state' = <<>>
    /\ acc' = FALSE
    /\ need' = FALSE
    /\ hist' = [NoHist EXCEPT
                    !.prev_same = (pc = "done" /\ outcome = "ok" /\ promoted = list),
                    !.recovering = (mirror = EmptyMirror \/ outcome = "crash")]
    /\ before' = mirror
    /\ scratch' = remove_stale(scratch)
    /\ UNCHANGED <<sync_config, releases, upstream, mirror, promoDir, buildDir, todo, cur,
                   crashes, ret>>

\* download_promotion_artifact and extract_zip_file_to_parent_dir.
DownloadPromotion ==
    /\ pc = "promo"
    /\ LET version == promoted[idx]
           bundle == upstream[version]
       IN  /\ hist' = [hist EXCEPT !.calls = Append(@, version),
                                   !.validated = {}, !.moved = {}]
           /\ IF bundle.links # 1
              THEN /\ Raised("promo")
                   /\ UNCHANGED <<idx, change_state>>
              ELSE /\ promoDir' = bundle.promo
                   /\ pc' = "check"
                   /\ UNCHANGED <<outcome, buildDir, todo, idx, change_state>>
    /\ UNCHANGED <<sync_config, scratch, releases, promoted, upstream, mirror, ti, cur, need, acc, crashes, before, ret>>

CheckSync_always ==
    /\ pc = "check"
    /\ need' = TRUE
    /\ pc' = "build"
    /\ UNCHANGED <<sync_config, scratch, releases, promoted, upstream, mirror, outcome, idx, ti,
                   promoDir, buildDir, todo, cur, change_state, acc, crashes,
                   before, ret, hist>>

\* if self._project_version_requires_sync(version): ... else return False
CheckSync ==
    /\ pc = "check"
    /\ need' = _project_version_requires_sync(mirror, releases, promoted[idx])
    /\ IF need'
       THEN /\ pc' = "build"
            /\ UNCHANGED <<promoDir, buildDir, todo, idx, change_state, before>>
       ELSE Returned(FALSE)
    /\ UNCHANGED <<sync_config, scratch, releases, promoted, upstream, mirror, outcome, ti, cur, acc,
                   crashes, ret, hist>>

\* download_release and extract_zip_file_to_parent_dir, then the descriptors
\* of the promotion bundle are loaded (promotion_temp_dir.glob("*/*.json")).
\* Without build artifacts download_release leaves an empty file, which
\* extract_zip_file_to_parent_dir refuses.
DownloadBuild ==
    /\ pc = "build"
    /\ LET version == promoted[idx]
           bundle == upstream[version]
       IN  /\ hist' = [hist EXCEPT !.builds = @ \cup {version}]
           /\ IF ~bundle.has_build
              THEN /\ Raised("build")
                   /\ UNCHANGED <<idx, change_state>>
              ELSE /\ buildDir' = bundle.build
                   /\ todo' = {t \in TypeNames : promoDir[t].json}
                   /\ pc' = "merge"
                   /\ UNCHANGED <<outcome, promoDir, idx, change_state>>
    /\ UNCHANGED <<sync_config, scratch, releases, promoted, upstream, mirror, ti, cur, need, acc, crashes, before, ret>>

\* copy_release_type_promotion_artifacts_to_build_dir fails when a directory
\* copy_signatures reads or writes is missing, or the declared torrent file
\* is not in the promotion bundle.
MergeFails(p, o) ==
    \/ ~p.dir
    \/ ~o.dir
    \/ p.desc.torrent # "none" /\ p.desc.torrent \notin p.torrents

\* Its effect on the build output of the release type: signatures copied,
\* torrent file and descriptor renamed into it.
MergedBuild(p, o) ==
    [o EXCEPT !.files = @ \cup p.sigs,
              !.torrents = IF p.desc.torrent # "none"
                           THEN @ \cup {p.desc.torrent} ELSE @,
              !.json = TRUE]

MergedPromo(p) ==
    [p EXCEPT !.torrents = @ \ {p.desc.torrent}, !.json = FALSE]

\* The loop over the loaded descriptors takes the next one and merges it.
Merge(t) ==
    /\ pc = "merge"
    /\ t \in todo
    /\ cur' = t
    /\ IF MergeFails(promoDir[t], buildDir[t])
       THEN Raised("merge")
       ELSE /\ todo' = todo \ {t}
            /\ buildDir' = [buildDir EXCEPT ![t] = MergedBuild(promoDir[t], @)]
            /\ promoDir' = [promoDir EXCEPT ![t] = MergedPromo(@)]
            /\ pc' = "validate"
            /\ UNCHANGED outcome
    /\ UNCHANGED <<sync_config, scratch, releases, promoted, upstream, mirror, idx, ti, need,
                   change_state, acc, crashes, before, ret, hist>>

\* The loop is exhausted: return True.
SyncReturn ==
    /\ pc = "merge"
    /\ todo = {}
    /\ Returned(TRUE)
    /\ UNCHANGED <<sync_config, scratch, releases, promoted, upstream, mirror, outcome, ti, cur, need,
                   acc, crashes, ret, hist>>

validate_release_type_files_no_files(release, o) ==
    \/ ~o.json
    \/ release.torrent # "none" /\ "std" \notin o.torrents

\* validate_release_type_files raises: the descriptor, the torrent file
\* <name>-<version>.torrent (if a torrent file is declared) or a listed
\* file is missing.
validate_release_type_files(release, o) ==
    \/ ~o.json
    \/ release.torrent # "none" /\ "std" \notin o.torrents
    \/ \E f \in release.files : ~(o.dir /\ f \in o.files)

Validate ==
    /\ pc = "validate"
    /\ IF validate_release_type_files(promoDir[cur].desc, buildDir[cur])
       THEN /\ Raised("validate")
            /\ UNCHANGED hist
       ELSE /\ pc' = "mvClear"
            /\ hist' = [hist EXCEPT !.validated = @ \cup {cur}]
            /\ UNCHANGED <<outcome, promoDir, buildDir, todo>>
    /\ UNCHANGED <<sync_config, scratch, releases, promoted, upstream, mirror, idx, ti, cur, need,
                   change_state, acc, crashes, before, ret>>

----------------------------------------------------------------------------
(* The mover: ProjectFiles.move_release_type_to_sync_dir, step by step.    *)

SetEntry(m, t, n, e) == [m EXCEPT ![t].entries[n] = e]

create_dir(m, t) == [m EXCEPT ![t].exists = TRUE]

\* shutil.rmtree refuses a symbolic link (to a directory).
RemoveDestinationFails(m, t, v) ==
    LET base == create_dir(m, t)[t]
    IN  PathIsDir(base, <<"dir", v>>) /\ PathIsSymlink(base, <<"dir", v>>)

RemoveDestination_base(m, t, v) ==
    [m EXCEPT ![t] = EmptyTypeDir]

\* create_dir(release_type_base), then "if the destination exists already,
\* remove it first": rmtree of a directory, unlink of anything else.
RemoveDestination(m, t, v) ==
    LET m1 == create_dir(m, t)
    IN  IF PathExists(m1[t], <<"dir", v>>)
        THEN SetEntry(m1, t, <<"dir", v>>, NoEntry)
        ELSE m1

MakeDestination_sidecar_first(m, t, v) ==
    SetEntry(SetEntry(m, t, <<"dir", v>>, DirEntry({})),
             t, <<"json", v>>, JsonEntry(promoDir[t].desc))

\* destination_release_dir.mkdir(parents=True)
MakeDestination(m, t, v) == SetEntry(m, t, <<"dir", v>>, DirEntry({}))

MoveFile_skip_known(m, t, v, f) ==
    IF m[t].entries[<<"json", v>>].kind = "file" THEN m
    ELSE SetEntry(m, t, <<"dir", v>>,
                  DirEntry(m[t].entries[<<"dir", v>>].files \cup {f}))

\* shutil.move of one listed file into the destination directory.
MoveFile(m, t, v, f) ==
    SetEntry(m, t, <<"dir", v>>, DirEntry(m[t].entries[<<"dir", v>>].files \cup {f}))

\* shutil.move of <name>-<version>.torrent to the release type directory.
MoveTorrent(m, t, v, release) == SetEntry(m, t, <<"torrent", v>>, FileEntry)

MoveJson_inside(m, t, v, release) ==
    SetEntry(m, t, <<"dir", v>>,
             DirEntry(m[t].entries[<<"dir", v>>].files \cup {"json"}))

\* shutil.move of <name>-<version>.json to the release type directory.
MoveJson(m, t, v, release) == SetEntry(m, t, <<"json", v>>, JsonEntry(release))

AfterFiles(release) == IF release.torrent # "none" THEN "mvTorrent" ELSE "mvJson"

Mutation(m) == [hist EXCEPT !.mutated = @ \/ (m # mirror)]

MvClear ==
    /\ pc = "mvClear"
    /\ LET version == promoted[idx]
       IN  IF RemoveDestinationFails(mirror, cur, version)
           THEN /\ mirror' = create_dir(mirror, cur)
                /\ Raised("mover")
           ELSE /\ mirror' = RemoveDestination(mirror, cur, version)
                /\ pc' = "mvMkdir"
                /\ UNCHANGED <<outcome, promoDir, buildDir, todo>>
    /\ hist' = [Mutation(mirror') EXCEPT !.moved = @ \cup {cur}]
    /\ UNCHANGED <<sync_config, scratch, releases, promoted, upstream, idx, ti, cur, need,
                   change_state, acc, crashes, before, ret>>

MvMkdir ==
    /\ pc = "mvMkdir"
    /\ LET version == promoted[idx]
           release == promoDir[cur].desc
       IN  IF mirror[cur].entries[<<"dir", version>>].kind # "none"
           THEN /\ Raised("mover")
                /\ UNCHANGED mirror
           ELSE /\ mirror' = MakeDestination(mirror, cur, version)
                /\ pc' = IF release.files = {} THEN AfterFiles(release)
                         ELSE "mvFiles"
                /\ UNCHANGED <<outcome, promoDir, buildDir, todo>>
    /\ hist' = Mutation(mirror')
    /\ UNCHANGED <<sync_config, scratch, releases, promoted, upstream, idx, ti, cur, need,
                   change_state, acc, crashes, before, ret>>

\* for file in release.files: shutil.move(...)
MvFile(f) ==
    /\ pc = "mvFiles"
    /\ LET version == promoted[idx]
           release == promoDir[cur].desc
           left == release.files \cap buildDir[cur].files
       IN  /\ f \in left
           /\ mirror' = MoveFile(mirror, cur, version, f)
           /\ buildDir' = [buildDir EXCEPT ![cur].files = @ \ {f}]
           /\ pc' = IF left = {f} THEN AfterFiles(release) ELSE "mvFiles"
    /\ hist' = Mutation(mirror')
    /\ UNCHANGED <<sync_config, scratch, releases, promoted, upstream, outcome, idx, ti, promoDir,
                   todo, cur, need, change_state, acc, crashes, before, ret>>

MvTorrent ==
    /\ pc = "mvTorrent"
    /\ mirror' = MoveTorrent(mirror, cur, promoted[idx], promoDir[cur].desc)
    /\ buildDir' = [buildDir EXCEPT ![cur].torrents = @ \ {"std"}]
    /\ pc' = "mvJson"
    /\ hist' = Mutation(mirror')
    /\ UNCHANGED <<sync_config, scratch, releases, promoted, upstream, outcome, idx, ti, promoDir,
                   todo, cur, need, change_state, acc, crashes, before, ret>>

MvJson ==
    /\ pc = "mvJson"
    /\ mirror' = MoveJson(mirror, cur, promoted[idx], promoDir[cur].desc)
    /\ buildDir' = [buildDir EXCEPT ![cur].json = FALSE]
    /\ pc' = "merge"
    /\ hist' = Mutation(mirror')
    /\ UNCHANGED <<sync_config, scratch, releases, promoted, upstream, outcome, idx, ti, promoDir,
                   todo, cur, need, change_state, acc, crashes, before, ret>>

----------------------------------------------------------------------------
(* Latest pointer: ProjectFiles._set_latest_version_symlink.               *)

RemoveEntry(base, n) == [base EXCEPT !.entries[n] = NoEntry]

\* if latest_link.exists(): unlink a link to another directory or a file,
\* rmtree a directory that is no link.
latest_unlinked(base, release_dir) ==
    IF PathExists(base, Latest)
    THEN LET b1 == IF \/ /\ PathIsSymlink(base, Latest)
                         /\ base.entries[Latest].target # release_dir
                      \/ PathIsFile(base, Latest)
                   THEN RemoveEntry(base, Latest) ELSE base
         IN  IF ~PathIsSymlink(b1, Latest) /\ PathIsDir(b1, Latest)
             THEN RemoveEntry(b1, Latest) ELSE b1
    ELSE base

\* latest_link.symlink_to(release_dir) fails when the release type directory
\* is missing or an entry named latest is there (a link to nowhere).
symlink_to_fails(base) == ~base.exists \/ base.entries[Latest].kind # "none"

LatestRemove ==
    /\ pc = "latest"
    /\ promoted # <<>>
    /\ ti <= Len(releases)
    /\ LET t == releases[ti]
           release_dir == <<"dir", latest_version(promoted)>>
       IN  mirror' = [mirror EXCEPT ![t] = latest_unlinked(@, release_dir)]
    /\ pc' = "latestMk"
    /\ hist' = [Mutation(mirror') EXCEPT !.latest_ran = TRUE]
    /\ UNCHANGED <<sync_config, scratch, releases, promoted, upstream, outcome, idx, ti, promoDir,
                   buildDir, todo, cur, need, change_state, acc, crashes, before, ret>>

\* if not latest_link.exists(): latest_link.symlink_to(release_dir)
LatestCreate ==
    /\ pc = "latestMk"
    /\ LET t == releases[ti]
           release_dir == <<"dir", latest_version(promoted)>>
       IN  IF PathExists(mirror[t], Latest)
           THEN /\ pc' = "latest"
                /\ ti' = ti + 1
                /\ UNCHANGED <<mirror, acc, outcome, promoDir, buildDir, todo>>
           ELSE IF symlink_to_fails(mirror[t])
           THEN /\ Raised("latest")
                /\ UNCHANGED <<mirror, acc, ti>>
           ELSE /\ mirror' = SetEntry(mirror, t, Latest, LinkEntry(release_dir))
                /\ acc' = TRUE
                /\ pc' = "latest"
                /\ ti' = ti + 1
                /\ UNCHANGED <<outcome, promoDir, buildDir, todo>>
    /\ hist' = Mutation(mirror')
    /\ UNCHANGED <<sync_config, scratch, releases, promoted, upstream, idx, cur, need, change_state,
                   crashes, before, ret>>

LatestDone_unlink ==
    /\ pc = "latest"
    /\ promoted = <<>> \/ ti > Len(releases)
    /\ mirror' = IF promoted = <<>>
                 THEN [t \in TypeNames |->
                         IF t \in Range(releases)
                         THEN RemoveEntry(mirror[t], Latest) ELSE mirror[t]]
                 ELSE mirror
    /\ change_state' = Append(change_state, acc \/ mirror' # mirror)
    /\ acc' = FALSE
    /\ ti' = 1
    /\ pc' = "prune"
    /\ hist' = [hist EXCEPT !.latest_ran = TRUE]
    /\ before' = mirror'
    /\ UNCHANGED <<sync_config, scratch, releases, promoted, upstream, outcome, idx, promoDir,
                   buildDir, todo, cur, need, crashes, ret>>

\* return any(state); sync() collects it and calls the pruner.
LatestDone ==
    /\ pc = "latest"
    /\ promoted = <<>> \/ ti > Len(releases)
    /\ change_state' = Append(change_state, acc)
    /\ acc' = FALSE
    /\ ti' = 1
    /\ pc' = "prune"
    /\ hist' = [hist EXCEPT !.latest_ran = TRUE]
    /\ before' = mirror
    /\ UNCHANGED <<sync_config, scratch, releases, promoted, upstream, mirror, outcome, idx, promoDir,
                   buildDir, todo, cur, need, crashes, ret>>

----------------------------------------------------------------------------
(* The pruner: ProjectFiles._remove_obsolete_releases.                     *)

expected_dirs(rel) == {Latest} \cup {<<"dir", v>> : v \in Range(rel)}
expected_files(rel) ==
    {<<"json", v>> : v \in Range(rel)} \cup {<<"torrent", v>> : v \in Range(rel)}

removes_dir_never(base, n, rel) == FALSE

\* if file.is_dir() and file not in expected_dirs: shutil.rmtree(file)
removes_dir(base, n, rel) == PathIsDir(base, n) /\ n \notin expected_dirs(rel)

\* if file.is_file() and file not in expected_files: file.unlink()
removes_file(base, n, rel) == PathIsFile(base, n) /\ n \notin expected_files(rel)

Removable(base, rel) ==
    {n \in Names : /\ base.exists
                   /\ base.entries[n].kind # "none"
                   /\ removes_dir(base, n, rel) \/ removes_file(base, n, rel)}

\* One entry met by the loop over release_type_dir.iterdir() is removed.
\* shutil.rmtree refuses a symbolic link.
PruneEntry(n) ==
    /\ pc = "prune"
    /\ ti <= Len(releases)
    /\ n \in Removable(mirror[releases[ti]], promoted)
    /\ LET t == releases[ti]
       IN  IF removes_dir(mirror[t], n, promoted) /\ PathIsSymlink(mirror[t], n)
           THEN /\ Raised("prune")
                /\ UNCHANGED <<mirror, acc>>
           ELSE /\ mirror' = SetEntry(mirror, t, n, NoEntry)
                /\ acc' = TRUE
                /\ UNCHANGED <<pc, outcome, promoDir, buildDir, todo>>
    /\ hist' = [Mutation(mirror') EXCEPT !.prune_ran = TRUE]
    /\ UNCHANGED <<sync_config, scratch, releases, promoted, upstream, idx, ti, cur, need,
                   change_state, crashes, before, ret>>

\* The loop over the directory ends (iterdir() of a missing directory
\* raises); the next release type follows.
PruneNext ==
    /\ pc = "prune"
    /\ ti <= Len(releases)
    /\ Removable(mirror[releases[ti]], promoted) = {}
    /\ IF ~mirror[releases[ti]].exists
       THEN /\ Raised("prune")
            /\ UNCHANGED ti
       ELSE /\ ti' = ti + 1
            /\ UNCHANGED <<pc, outcome, promoDir, buildDir, todo>>
    /\ hist' = [hist EXCEPT !.prune_ran = TRUE]
    /\ UNCHANGED <<sync_config, scratch, releases, promoted, upstream, mirror, idx, cur, need,
                   change_state, acc, crashes, before, ret>>

\* return any(state)
PruneDone ==
    /\ pc = "prune"
    /\ ti > Len(releases)
    /\ change_state' = Append(change_state, acc)
    /\ acc' = FALSE
    /\ pc' = "notify"
    /\ hist' = [hist EXCEPT !.prune_ran = TRUE]
    /\ UNCHANGED <<sync_config, scratch, releases, promoted, upstream, mirror, outcome, idx, ti,
                   promoDir, buildDir, todo, cur, need, crashes, before, ret>>

\* if any(change_state): project_files._set_last_update_file_timestamp()
Notify ==
    /\ pc = "notify"
    /\ hist' = [hist EXCEPT !.notified = AnyTrue(change_state)]
    /\ pc' = "done"
    /\ outcome' = "ok"
    /\ UNCHANGED <<sync_config, scratch, releases, promoted, upstream, mirror, idx, ti, promoDir,
                   buildDir, todo, cur, need, change_state, acc, crashes, before, ret>>

\* The process is killed in the middle of a pass: the mirror stays as it is.
Crash ==
    /\ pc \notin {"idle", "done"}
    /\ crashes < MaxCrashes
    /\ crashes' = crashes + 1
    /\ pc' = "idle"
    /\ outcome' = "crash"
    /\ promoDir' = NoPromoDir
    /\ buildDir' = NoBuildDir
    /\ todo' = {}
    /\ scratch' = left_behind(scratch, sync_config, pc)
    /\ UNCHANGED <<sync_config, releases, promoted, upstream, mirror, idx, ti, cur, need,
                   change_state, acc, before, ret, hist>>

----------------------------------------------------------------------------
(* Passes over a mirror that starts empty.                                 *)

Init ==
    /\ releases = <<"a", "b">>
    /\ promoted = <<>>
    /\ upstream \in Upstreams
    /\ mirror = EmptyMirror
    /\ pc = "idle"
    /\ outcome = "none"
    /\ idx = 1
    /\ ti = 1
    /\ promoDir = NoPromoDir
    /\ buildDir = NoBuildDir
    /\ todo = {}
    /\ cur = "a"
    /\ need = FALSE
    /\ change_state = <<>>
    /\ acc = FALSE
    /\ crashes = 0
    /\ before = EmptyMirror
    /\ ret = NoRet
    /\ hist = NoHist
    /\ sync_config = [temp_in_sync_dir |-> TRUE, last_updated_file |-> TRUE,
                      backlog |-> MaxVersion]
    /\ scratch = NoScratch

SyncVersionStep ==
    \/ DownloadPromotion
    \/ CheckSync
    \/ DownloadBuild
    \/ \E t \in TypeNames : Merge(t)
    \/ SyncReturn
    \/ Validate

MoverStep ==
    \/ MvClear
    \/ MvMkdir
    \/ \E f \in FileNames : MvFile(f)
    \/ MvTorrent
    \/ MvJson

LatestStep == LatestRemove \/ LatestCreate \/ LatestDone

PruneStep == (\E n \in Names : PruneEntry(n)) \/ PruneNext \/ PruneDone

PassStep == SyncVersionStep \/ MoverStep \/ LatestStep \/ PruneStep \/ Notify

Next ==
    \/ \E list \in PromotedLists : StartPass(list)
    \/ PassStep

Spec == Init /\ [][Next]_vars

\* Passes that can be interrupted, with complete bundles upstream.
InitRecover ==
    /\ releases = <<"a", "b">>
    /\ promoted = <<>>
    /\ upstream = [v \in Versions |-> CompleteBundle]
    /\ mirror = EmptyMirror
    /\ pc = "idle"
    /\ outcome = "none"
    /\ idx = 1
    /\ ti = 1
    /\ promoDir = NoPromoDir
    /\ buildDir = NoBuildDir
    /\ todo = {}
    /\ cur = "a"
    /\ need = FALSE
    /\ change_state = <<>>
    /\ acc = FALSE
    /\ crashes = 0
    /\ before = EmptyMirror
    /\ ret = NoRet
    /\ hist = NoHist
    /\ sync_config \in SyncConfigs
    /\ scratch = NoScratch

\* Passes with any configured backlog.
InitBacklog ==
    /\ InitRecover
    /\ sync_config.temp_in_sync_dir
    /\ sync_config.last_updated_file

SpecBacklog == InitBacklog /\ [][Next]_vars

NextRecover ==
    \/ \E list \in PromotedLists : StartPass(list)
    \/ PassStep
    \/ Crash

SpecRecover == InitRecover /\ [][NextRecover]_vars

----------------------------------------------------------------------------
(* Direct calls of the completeness checker on arbitrary mirror content.   *)

\* Content of one release type directory at version 1: the sidecar absent
\* or holding any descriptor, the version directory absent, a plain file or
\* a directory with any files, the torrent files present or not.
CheckerTypeDirs ==
    {NoTypeDir} \cup
    {[exists |-> TRUE,
      entries |-> [n \in Names |->
                     IF n = <<"json", 1>> THEN j
                     ELSE IF n = <<"dir", 1>> THEN d
                     ELSE IF n = <<"torrent", 1>> THEN t
                     ELSE IF n = <<"odd", 1>> THEN o
                     ELSE NoEntry]] :
        j \in {NoEntry} \cup {JsonEntry(x) : x \in Descs},
        d \in {NoEntry, FileEntry} \cup {DirEntry(fs) : fs \in SUBSET FileNames},
        t \in {NoEntry, FileEntry},
        o \in {NoEntry, FileEntry}}

\* Three contents of a second release type directory: missing, complete,
\* sidecar without its file.
OtherTypeDirs ==
    {NoTypeDir} \cup
    {[exists |-> TRUE,
      entries |-> [n \in Names |->
                     IF n = <<"json", 1>>
                     THEN JsonEntry([files |-> {"iso"}, torrent |-> "none"])
                     ELSE IF n = <<"dir", 1>> THEN DirEntry(fs)
                     ELSE NoEntry]] : fs \in {{}, {"iso"}}}

ReleaseLists == {<<>>, <<"a">>, <<"b">>, <<"a", "b">>, <<"b", "a">>}

\* No pass has run and none is running.
Idle ==
    /\ upstream = [v \in Versions |-> CompleteBundle]
    /\ outcome = "none"
    /\ idx = 1
    /\ ti = 1
    /\ todo = {}
    /\ cur = "a"
    /\ need = FALSE
    /\ change_state = <<>>
    /\ acc = FALSE
    /\ crashes = 0
    /\ ret = NoRet
    /\ hist = NoHist
    /\ sync_config = [temp_in_sync_dir |-> TRUE, last_updated_file |-> TRUE,
                      backlog |-> MaxVersion]
    /\ scratch = NoScratch

InitChecker ==
    /\ Idle
    /\ pc = "call"
    /\ promoted = <<>>
    /\ promoDir = NoPromoDir
    /\ buildDir = NoBuildDir
    /\ releases \in ReleaseLists
    /\ \E a \in CheckerTypeDirs, b \in OtherTypeDirs :
          mirror = [t \in TypeNames |->
                      IF t = "a" THEN a ELSE IF t = "b" THEN b ELSE NoTypeDir]
    /\ before = mirror

CallIsSynced(name, version) ==
    /\ pc = "call"
    /\ ret' = [op |-> "is_synced", name |-> name, version |-> version,
               val |-> _is_release_type_synced(mirror, name, version)]
    /\ UNCHANGED <<sync_config, scratch, releases, promoted, upstream, mirror, pc, outcome, idx, ti,
                   promoDir, buildDir, todo, cur, need, change_state, acc,
                   crashes, before, hist>>

CallRequiresSync(version) ==
    /\ pc = "call"
    /\ ret' = [op |-> "requires_sync", name |-> "a", version |-> version,
               val |-> _project_version_requires_sync(mirror, releases, version)]
    /\ UNCHANGED <<sync_config, scratch, releases, promoted, upstream, mirror, pc, outcome, idx, ti,
                   promoDir, buildDir, todo, cur, need, change_state, acc,
                   crashes, before, hist>>

NextChecker ==
    \/ \E name \in {"a", "b"}, version \in Versions : CallIsSynced(name, version)
    \/ \E version \in Versions : CallRequiresSync(version)

SpecChecker == InitChecker /\ [][NextChecker]_vars

----------------------------------------------------------------------------
(* Direct calls of the mover on arbitrary prior content of the mirror.     *)

\* What can be at the destination before the call: nothing, a plain file,
\* a directory with any files, a link to nowhere, a link to a directory.
MoverTypeDirs ==
    {NoTypeDir} \cup
    {[exists |-> TRUE,
      entries |-> [n \in Names |->
                     IF n = <<"dir", 1>> THEN d
                     ELSE IF n = <<"json", 1>> THEN j
                     ELSE IF n = <<"torrent", 1>> THEN t
                     ELSE IF n = Other /\ d.kind = "link" /\ d.target = Other
                     THEN DirEntry({"iso"})
                     ELSE NoEntry]] :
        d \in {NoEntry, FileEntry, LinkEntry(NoName), LinkEntry(Other)}
                 \cup {DirEntry(fs) : fs \in SUBSET FileNames},
        j \in {NoEntry, JsonEntry(NoDesc)},
        t \in {NoEntry, FileEntry}}

\* Build output that passed validate_release_type_files for the descriptor.
ValidatedBuilds(release) ==
    {o \in [dir : {TRUE}, files : SUBSET FileNames,
            torrents : SUBSET {"std", "odd"}, json : {TRUE}] :
        ~validate_release_type_files(release, o)}

InitMover ==
    /\ Idle
    /\ pc = "mvClear"
    /\ promoted = <<1>>
    /\ releases = <<"a", "b">>
    /\ \E a \in MoverTypeDirs :
          mirror = [t \in TypeNames |-> IF t = "a" THEN a ELSE NoTypeDir]
    /\ before = mirror
    /\ \E release \in Descs : \E o \in ValidatedBuilds(release) :
          /\ promoDir = [NoPromoDir EXCEPT !["a"].desc = release, !["a"].dir = TRUE]
          /\ buildDir = [NoBuildDir EXCEPT !["a"] = o]

SpecMover == InitMover /\ [][MoverStep]_vars

----------------------------------------------------------------------------
(* Direct calls of the pruner on arbitrary prior content of the mirror.    *)

\* Prior content of a release type directory: directories, plain files and
\* symbolic links under expected and unexpected names.
PruneTypeDirs ==
    {[exists |-> TRUE,
      entries |-> [n \in Names |->
                     IF n = Latest THEN l
                     ELSE IF n = Other THEN o
                     ELSE IF n = <<"dir", 1>> THEN d
                     ELSE IF n = <<"json", 1>> THEN j
                     ELSE IF n = <<"torrent", 1>> THEN t
                     ELSE IF n = <<"dir", MaxVersion>> THEN DirEntry({"iso"})
                     ELSE IF n = <<"json", MaxVersion>>
                     THEN JsonEntry([files |-> {"iso"}, torrent |-> "none"])
                     ELSE NoEntry]] :
        l \in {NoEntry, FileEntry, LinkEntry(<<"dir", MaxVersion>>)},
        o \in {NoEntry, FileEntry, DirEntry({}), LinkEntry(NoName),
               LinkEntry(<<"dir", MaxVersion>>)},
        d \in {NoEntry, FileEntry, DirEntry({"iso"})},
        j \in {NoEntry, JsonEntry(NoDesc), DirEntry({})},
        t \in {NoEntry, FileEntry}}

InitPrune ==
    /\ Idle
    /\ pc = "idle"
    /\ promoted = <<>>
    /\ promoDir = NoPromoDir
    /\ buildDir = NoBuildDir
    /\ releases = <<"a", "b">>
    /\ \E a \in PruneTypeDirs, b \in {NoTypeDir, EmptyTypeDir} :
          mirror = [t \in TypeNames |->
                      IF t = "a" THEN a ELSE IF t = "b" THEN b ELSE NoTypeDir]
    /\ before = mirror

\* _remove_obsolete_releases is entered with some promoted releases.
StartPrune(list) ==
    /\ pc = "idle"
    /\ promoted' = list
    /\ pc' = "prune"
    /\ UNCHANGED <<sync_config, scratch, releases, upstream, mirror, outcome, idx, ti, promoDir,
                   buildDir, todo, cur, need, change_state, acc, crashes,
                   before, ret, hist>>

NextPrune ==
    \/ \E list \in PromotedLists : StartPrune(list)
    \/ \E n \in Names : PruneEntry(n)
    \/ PruneNext
    \/ PruneDone

SpecPrune == InitPrune /\ [][NextPrune]_vars

----------------------------------------------------------------------------
(* Direct calls of the latest pointer step on arbitrary prior `latest`.    *)

\* A release type directory holding the version directories in present and
\* one sidecar, with the entry latest absent, a link to a version directory,
\* to a plain file or to nothing, a plain file or a plain directory.
LatestTypeDirs ==
    {[exists |-> TRUE,
      entries |-> [n \in Names |->
                     IF n = Latest THEN l
                     ELSE IF n[1] = "dir" /\ n[2] \in present THEN DirEntry({"iso"})
                     ELSE IF n = <<"json", 1>>
                     THEN JsonEntry([files |-> {"iso"}, torrent |-> "none"])
                     ELSE NoEntry]] :
        l \in {NoEntry, FileEntry, DirEntry({}), LinkEntry(NoName),
               LinkEntry(<<"json", 1>>)}
                 \cup {LinkEntry(<<"dir", v>>) : v \in Versions},
        present \in SUBSET Versions}

\* A release type directory holding every version directory and a latest
\* link to one of them.
LinkedTypeDirs ==
    {[exists |-> TRUE,
      entries |-> [n \in Names |->
                     IF n = Latest THEN LinkEntry(<<"dir", v>>)
                     ELSE IF n[1] = "dir" THEN DirEntry({"iso"})
                     ELSE NoEntry]] : v \in Versions}

InitLatest ==
    /\ Idle
    /\ pc = "latest"
    /\ promoted \in PromotedLists
    /\ promoDir = NoPromoDir
    /\ buildDir = NoBuildDir
    /\ releases = <<"a", "b">>
    /\ \E a \in LatestTypeDirs, b \in {EmptyTypeDir, NoTypeDir} \cup LinkedTypeDirs :
          mirror = [t \in TypeNames |->
                      IF t = "a" THEN a ELSE IF t = "b" THEN b ELSE NoTypeDir]
    /\ before = mirror

SpecLatest == InitLatest /\ [][LatestStep]_vars

----------------------------------------------------------------------------
(* Direct calls of remove_temp_dir on a path of any name and kind.         *)

\* A file name is a sequence of pieces of text; TEMP_DIR_PREFIX is one piece.
MaxNameLen == 3
TEMP_DIR_PREFIX == "arp-"
NameParts == {TEMP_DIR_PREFIX, "tmp", "x"}
PathNames == SeqsOver(NameParts, MaxNameLen) \ {<<>>}

\* What is at the path: a directory, a plain file, nothing, or a symbolic
\* link to a directory.
PathKinds == {"dir", "file", "missing", "link"}

\* TEMP_DIR_PREFIX in path.name
NameContains(name, part) == \E i \in 1..Len(name) : name[i] = part

\* if not path.is_dir(): raise; if TEMP_DIR_PREFIX not in path.name: raise;
\* shutil.rmtree(path), which refuses a symbolic link.
remove_temp_dir(kind, name) ==
    LET is_dir == kind \in {"dir", "link"}
        named == NameContains(name, TEMP_DIR_PREFIX)
    IN  [raised  |-> ~is_dir \/ ~named \/ kind = "link",
         removed |-> kind = "dir" /\ named]

\* No pass is running: one function is called directly, and the state holds
\* the call and its result.
InitCall ==
    /\ Idle
    /\ pc = "call"
    /\ promoted = <<>>
    /\ promoDir = NoPromoDir
    /\ buildDir = NoBuildDir
    /\ releases = <<>>
    /\ mirror = EmptyMirror
    /\ before = mirror

\* The call returns; nothing but its result is kept.
CallFrame ==
    /\ pc' = "returned"
    /\ UNCHANGED <<sync_config, scratch, releases, promoted, upstream, mirror, outcome, idx, ti,
                   promoDir, buildDir, todo, cur, need, change_state, acc,
                   crashes, before, hist>>

CallRemoveTempDir(kind, name) ==
    /\ pc = "call"
    /\ ret' = [op |-> "remove_temp_dir", kind |-> kind, name |-> name,
               val |-> remove_temp_dir(kind, name)]
    /\ CallFrame

NextTemp == \E kind \in PathKinds, name \in PathNames : CallRemoveTempDir(kind, name)

SpecTemp == InitCall /\ [][NextTemp]_vars

----------------------------------------------------------------------------
(* Direct calls of Upstream.get_releases and download_promotion_artifact   *)
(* on a listing of the project's releases.                                 *)

MaxLinks == 2
PromotionLinkName == "Promotion artifact"
Links == {[name |-> PromotionLinkName, url |-> "u1"],
          [name |-> PromotionLinkName, url |-> "u2"],
          [name |-> "Build artifacts", url |-> "u3"]}
\* release.links.list(): the links of a release, each listed once.
LinkLists ==
    {s \in SeqsOver(Links, MaxLinks) : Cardinality(Range(s)) = Len(s)}
UpstreamReleases == [tag_name : Versions, links : LinkLists]

\* project.releases.list(): releases in the host's order, one per tag.
Listings ==
    {s \in SeqsOver(UpstreamReleases, 2) :
        \A i, j \in 1..Len(s) : s[i].tag_name = s[j].tag_name => i = j}

\* any(link.name == "Promotion artifact" for link in release.links.list())
has_promotion_link(release) ==
    \E k \in 1..Len(release.links) : release.links[k].name = PromotionLinkName

RECURSIVE get_releases_loop(_, _, _, _, _)
get_releases_loop(listing, i, max_releases, is_promoted, release_tags) ==
    IF i > Len(listing) THEN release_tags
    ELSE LET release == listing[i]
             selected ==
                 /\ IF is_promoted THEN has_promotion_link(release)
                    ELSE ~has_promotion_link(release)
                 /\ Len(release_tags) < max_releases
         IN  get_releases_loop(listing, i + 1, max_releases, is_promoted,
                               IF selected
                               THEN Append(release_tags, release.tag_name)
                               ELSE release_tags)

get_releases_unbounded(listing, max_releases, is_promoted) ==
    get_releases_loop(listing, 1, Len(listing), is_promoted, <<>>)

get_releases(listing, max_releases, is_promoted) ==
    get_releases_loop(listing, 1, max_releases, is_promoted, <<>>)

\* [link.url for link in release.links.list() if link.name == ...]
RECURSIVE promotion_urls(_, _)
promotion_urls(links, k) ==
    IF k > Len(links) THEN <<>>
    ELSE (IF links[k].name = PromotionLinkName THEN <<links[k].url>> ELSE <<>>)
         \o promotion_urls(links, k + 1)

RECURSIVE artifact_links(_, _, _)
artifact_links(listing, i, tag_name) ==
    IF i > Len(listing) THEN <<>>
    ELSE (IF listing[i].tag_name = tag_name /\ has_promotion_link(listing[i])
          THEN promotion_urls(listing[i].links, 1) ELSE <<>>)
         \o artifact_links(listing, i + 1, tag_name)

download_promotion_artifact_first(listing, tag_name) ==
    LET urls == artifact_links(listing, 1, tag_name)
    IN  IF urls = <<>>
        THEN [raised |-> TRUE, url |-> "none", file |-> "none"]
        ELSE [raised |-> FALSE, url |-> urls[1], file |-> "promotion.zip"]

\* Raises for no link and for more than one; else urlretrieve of the one
\* link to temp_dir / "promotion.zip", whose path is returned.
download_promotion_artifact(listing, tag_name) ==
    LET urls == artifact_links(listing, 1, tag_name)
    IN  IF urls = <<>> \/ Len(urls) > 1
        THEN [raised |-> TRUE, url |-> "none", file |-> "none"]
        ELSE [raised |-> FALSE, url |-> urls[1], file |-> "promotion.zip"]

CallGetReleases(listing, max_releases) ==
    /\ pc = "call"
    /\ ret' = [op |-> "get_releases", listing |-> listing,
               max_releases |-> max_releases,
               val |-> [promoted |-> get_releases(listing, max_releases, TRUE),
                        other |-> get_releases(listing, max_releases, FALSE)]]
    /\ CallFrame

CallDownloadPromotionArtifact(listing, tag_name) ==
    /\ pc = "call"
    /\ ret' = [op |-> "download_promotion_artifact", listing |-> listing,
               tag_name |-> tag_name,
               val |-> download_promotion_artifact(listing, tag_name)]
    /\ CallFrame

NextUpstream ==
    \/ \E listing \in Listings, max_releases \in 0..MaxVersion :
          CallGetReleases(listing, max_releases)
    \/ \E listing \in Listings, tag_name \in Versions :
          CallDownloadPromotionArtifact(listing, tag_name)

SpecUpstream == InitCall /\ [][NextUpstream]_vars

----------------------------------------------------------------------------
(* Direct calls of the validators of Projects (config.py).                 *)

PROJECTS_SYNC_DIR == "/var/lib/arch-release-promotion/"
PROJECTS_SYNC_BACKLOG == 3

\* What a configuration file may hold for a sync_config table: each key is
\* absent (None; for the backlog the empty sequence) or has a value (for the
\* backlog the sequence of one number).
None == "None"
NoBacklog == <<>>
MaxBacklog == 2
RawSyncConfigs ==
    [directory : {None, "/srv/a", "/srv/b"},
     backlog : {NoBacklog} \cup {<<n>> : n \in 0..MaxBacklog},
     last_updated_file : {None, "/srv/lastupdate"},
     temp_in_sync_dir : {None, "true", "false"}]

\* SyncConfig(**table): an absent temp_in_sync_dir takes the field's default
\* True, the other absent fields are None.
SyncConfig(raw) ==
    [directory |-> raw.directory,
     backlog |-> raw.backlog,
     last_updated_file |-> raw.last_updated_file,
     temp_in_sync_dir |-> raw.temp_in_sync_dir # "false"]

default_sync_config ==
    [directory |-> PROJECTS_SYNC_DIR,
     backlog |-> <<PROJECTS_SYNC_BACKLOG>>,
     last_updated_file |-> None,
     temp_in_sync_dir |-> TRUE]

\* x or y, for an Optional[Path] and for an Optional[int]
or_path(x, y) == IF x # None THEN x ELSE y
or_int(x, y) == IF x # NoBacklog /\ x[1] # 0 THEN x ELSE y

\* SyncConfig(directory=own.directory or base.directory, ...,
\*            temp_in_sync_dir=False if not own.temp_in_sync_dir
\*                             else base.temp_in_sync_dir)
merged(own, base) ==
    [directory |-> or_path(own.directory, base.directory),
     backlog |-> or_int(own.backlog, base.backlog),
     last_updated_file |-> or_path(own.last_updated_file, base.last_updated_file),
     temp_in_sync_dir |-> IF ~own.temp_in_sync_dir THEN FALSE
                          ELSE base.temp_in_sync_dir]

\* A sync_config table of the configuration file: absent (the empty
\* sequence) or the sequence of one table.
Tables == {<<>>} \cup {<<raw>> : raw \in RawSyncConfigs}

\* The sync_config of a project after the root validator.
validate_projects(global_table, project_table) ==
    LET global_sync_config ==
            IF global_table = <<>> THEN default_sync_config
            ELSE merged(SyncConfig(global_table[1]), default_sync_config)
    IN  IF project_table = <<>> THEN global_sync_config
        ELSE merged(SyncConfig(project_table[1]), global_sync_config)

\* Release type names of the configured projects, project by project.
MaxReleaseTypes == 2
ReleaseNameLists == SeqsOver(TypeNames, MaxReleaseTypes)
ProjectLists == SeqsOver(ReleaseNameLists, 2)

\* release_types += project.releases, for every project
RECURSIVE release_type_names(_, _)
release_type_names(projects, i) ==
    IF i > Len(projects) THEN <<>>
    ELSE projects[i] \o release_type_names(projects, i + 1)

validate_project_releases_unique_each(projects) ==
    [raised |-> \E i \in 1..Len(projects) :
                    Cardinality(Range(projects[i])) < Len(projects[i]),
     projects |-> projects]

\* if len(set(names)) < len(names): raise ValueError; return projects
validate_project_releases_unique(projects) ==
    LET names == release_type_names(projects, 1)
    IN  [raised |-> Cardinality(Range(names)) < Len(names),
         projects |-> projects]

CallValidateProjects(global_table, project_table) ==
    /\ pc = "call"
    /\ ret' = [op |-> "validate_projects", global |-> global_table,
               project |-> project_table,
               val |-> validate_projects(global_table, project_table)]
    /\ CallFrame

CallValidateUnique(projects) ==
    /\ pc = "call"
    /\ ret' = [op |-> "validate_project_releases_unique", projects |-> projects,
               val |-> validate_project_releases_unique(projects)]
    /\ CallFrame

NextConfig ==
    \/ \E global_table \in Tables, project_table \in Tables :
          CallValidateProjects(global_table, project_table)
    \/ \E projects \in ProjectLists : CallValidateUnique(projects)

SpecConfig == InitCall /\ [][NextConfig]_vars

----------------------------------------------------------------------------
(* Direct calls of write_release_info_to_file followed by                  *)
(* load_release_from_json_payload on the file written.                     *)

\* Release instances (release.py). torrent_file is Optional[str]: the empty
\* sequence is None, a sequence of one string is that string.
MaxFiles == 2
SizeMetrics == [name : {"size"}, description : {"bytes"}, size : {0, 7}]
AmountMetrics == [name : {"packages"}, description : {"count"}, amount : {3}]
VersionMetrics == [name : {"linux"}, description : {"kernel"}, version : {"6.1"}]
Releases ==
    [name : {"a", "b"},
     version : {"1", "2023.01.01"},
     files : SeqsOver(FileNames, MaxFiles),
     amount_metrics : SeqsOver(AmountMetrics, 1),
     size_metrics : SeqsOver(SizeMetrics, 1),
     version_metrics : SeqsOver(VersionMetrics, 1),
     torrent_file : {<<>>, <<"a-1.torrent">>, <<"null">>},
     developer : {"Foobar McFoo <foo@bar>"},
     pgp_public_key : {"SOMEONESKEY"}]

\* JSON values as orjson writes them: null, a string, a number, an array of
\* values, an object as its members in the order of the sorted keys.
json_null == <<"null">>
json_string(s) == <<"string", s>>
json_number(n) == <<"number", n>>
json_array(values) == <<"array", values>>
json_object(members) == <<"object", members>>

dumps_strings(strings) ==
    json_array([i \in 1..Len(strings) |-> json_string(strings[i])])

\* Metric.dict() under OPT_SORT_KEYS
dumps_amount_metric(m) ==
    json_object(<< <<"amount", json_number(m.amount)>>,
                   <<"description", json_string(m.description)>>,
                   <<"name", json_string(m.name)>> >>)
dumps_size_metric(m) ==
    json_object(<< <<"description", json_string(m.description)>>,
                   <<"name", json_string(m.name)>>,
                   <<"size", json_number(m.size)>> >>)
dumps_version_metric(m) ==
    json_object(<< <<"description", json_string(m.description)>>,
                   <<"name", json_string(m.name)>>,
                   <<"version", json_string(m.version)>> >>)

dumps_optional_str_as_str(x) ==
    IF x = <<>> THEN json_string("None") ELSE json_string(x[1])

\* None is written as null, a string as a string
dumps_optional_str(x) == IF x = <<>> THEN json_null ELSE json_string(x[1])

\* orjson.dumps(release.dict(), option=... | OPT_SORT_KEYS)
write_release_info_to_file(release) ==
    json_object(<<
        <<"amount_metrics",
          json_array([i \in 1..Len(release.amount_metrics) |->
                        dumps_amount_metric(release.amount_metrics[i])])>>,
        <<"developer", json_string(release.developer)>>,
        <<"files", dumps_strings(release.files)>>,
        <<"name", json_string(release.name)>>,
        <<"pgp_public_key", json_string(release.pgp_public_key)>>,
        <<"size_metrics",
          json_array([i \in 1..Len(release.size_metrics) |->
                        dumps_size_metric(release.size_metrics[i])])>>,
        <<"torrent_file", dumps_optional_str(release.torrent_file)>>,
        <<"version", json_string(release.version)>>,
        <<"version_metrics",
          json_array([i \in 1..Len(release.version_metrics) |->
                        dumps_version_metric(release.version_metrics[i])])>> >>)

\* orjson.loads: the value of a key of an object
member(object, key) ==
    LET members == object[2]
        i == CHOOSE k \in 1..Len(members) : members[k][1] = key
    IN  members[i][2]

\* The Python value of a JSON string, number, or array of strings
loads_scalar(value) == value[2]
loads_strings(value) == [i \in 1..Len(value[2]) |-> loads_scalar(value[2][i])]
loads_optional_str(value) ==
    IF value = json_null THEN <<>> ELSE <<loads_scalar(value)>>

\* Release(**orjson.loads(file.read())): pydantic builds the nested metrics
\* from the dictionaries of the payload.
load_release_from_json_text(text) ==
    LET metrics(key) == member(text, key)[2]
    IN  [name |-> loads_scalar(member(text, "name")),
         version |-> loads_scalar(member(text, "version")),
         files |-> loads_strings(member(text, "files")),
         amount_metrics |->
             [i \in 1..Len(metrics("amount_metrics")) |->
                [name |-> loads_scalar(member(metrics("amount_metrics")[i], "name")),
                 description |->
                     loads_scalar(member(metrics("amount_metrics")[i], "description")),
                 amount |-> loads_scalar(member(metrics("amount_metrics")[i], "amount"))]],
         size_metrics |->
             [i \in 1..Len(metrics("size_metrics")) |->
                [name |-> loads_scalar(member(metrics("size_metrics")[i], "name")),
                 description |->
                     loads_scalar(member(metrics("size_metrics")[i], "description")),
                 size |-> loads_scalar(member(metrics("size_metrics")[i], "size"))]],
         version_metrics |->
             [i \in 1..Len(metrics("version_metrics")) |->
                [name |-> loads_scalar(member(metrics("version_metrics")[i], "name")),
                 description |->
                     loads_scalar(member(metrics("version_metrics")[i], "description")),
                 version |->
                     loads_scalar(member(metrics("version_metrics")[i], "version"))]],
         torrent_file |-> loads_optional_str(member(text, "torrent_file")),
         developer |-> loads_scalar(member(text, "developer")),
         pgp_public_key |-> loads_scalar(member(text, "pgp_public_key"))]

CallWriteThenLoad(release) ==
    /\ pc = "call"
    /\ ret' = [op |-> "write_then_load", release |-> release,
               written |-> write_release_info_to_file(release),
               val |-> load_release_from_json_text(
                           write_release_info_to_file(release))]
    /\ CallFrame

NextDescriptor == \E release \in Releases : CallWriteThenLoad(release)

SpecDescriptor == InitCall /\ [][NextDescriptor]_vars

----------------------------------------------------------------------------
(* promote_project_release (cli.py): the loop over the configured release  *)
(* types of a project, on a listing of the project's releases.             *)

\* release.links.create({"url": ..., "name": "Promotion artifact"}) for the
\* releases of the listing that carry the tag.
links_create(listing, tag_name, url) ==
    [i \in 1..Len(listing) |->
        IF listing[i].tag_name = tag_name
        THEN [listing[i] EXCEPT
                 !.links = Append(@, [name |-> PromotionLinkName, url |-> url])]
        ELSE listing[i]]

\* The project host refuses a second link of the same name on a release, or
\* accepts it: which one is the host's matter.
MayRefuseLink(listing, tag_name) ==
    \E i \in 1..Len(listing) :
        listing[i].tag_name = tag_name /\ has_promotion_link(listing[i])

\* project.upload gives every uploaded promotion.zip a URL of its own.
uploaded_url(i) == IF i = 1 THEN "u1" ELSE "u2"

InitPromote ==
    /\ Idle
    /\ pc = "call"
    /\ promoted = <<>>
    /\ promoDir = NoPromoDir
    /\ buildDir = NoBuildDir
    /\ releases \in ReleaseLists \ {<<>>}
    /\ mirror = EmptyMirror
    /\ before = mirror

PromoteFrame ==
    UNCHANGED <<sync_config, scratch, releases, promoted, upstream, mirror, outcome, idx,
                promoDir, buildDir, todo, cur, need, change_state, acc,
                crashes, before, hist>>

\* promote_project_release(project, release_version): the build artifacts
\* are downloaded and unpacked, the loop is entered.
CallPromote(listing, tag_name) ==
    /\ pc = "call"
    /\ \E i \in 1..Len(listing) : listing[i].tag_name = tag_name
    /\ ret' = [op |-> "promote_project_release", tag_name |-> tag_name,
               given |-> listing, listing |-> listing, archived |-> {},
               raised |-> FALSE]
    /\ ti' = 1
    /\ pc' = "promoting"
    /\ PromoteFrame

\* One round of the loop: the release type is signed, described and added to
\* the promotion directory, the directory is archived to promotion.zip, and
\* promote_release uploads the archive and links it to the release.
PromoteReleaseType(accepted) ==
    /\ pc = "promoting"
    /\ ti <= Len(releases)
    /\ accepted \/ MayRefuseLink(ret.listing, ret.tag_name)
    /\ IF accepted
       THEN /\ ret' = [ret EXCEPT
                         !.archived = @ \cup {releases[ti]},
                         !.listing = links_create(@, ret.tag_name, uploaded_url(ti))]
            /\ ti' = ti + 1
            /\ UNCHANGED pc
       ELSE /\ ret' = [ret EXCEPT !.archived = @ \cup {releases[ti]},
                                  !.raised = TRUE]
            /\ pc' = "returned"
            /\ UNCHANGED ti
    /\ PromoteFrame

\* files.remove_temp_dir of both scratch directories; the function returns.
PromoteDone ==
    /\ pc = "promoting"
    /\ ti > Len(releases)
    /\ pc' = "returned"
    /\ UNCHANGED <<ret, ti>>
    /\ PromoteFrame

NextPromote ==
    \/ \E listing \in Listings, tag_name \in Versions : CallPromote(listing, tag_name)
    \/ \E accepted \in BOOLEAN : PromoteReleaseType(accepted)
    \/ PromoteDone

SpecPromote == InitPromote /\ [][NextPromote]_vars

----------------------------------------------------------------------------
(* signature.sign_files_in_dir: the signing loop of a promotion.  The       *)
(* directory is read once, each entry with a listed suffix is handed to     *)
(* sign_file until gpg returns 0.  The specification keeps the call in ret: *)
(* the listing, the extensions, the entries gpg is able to sign, the last   *)
(* return code, the entries sign_file was called for, those a call failed   *)
(* for and those a call succeeded for.                                      *)

MaxEntries == 3

\* Entry names as their dot-separated parts.
EntryNames == {<<"a", "iso">>, <<"b", "iso">>, <<"c", "tar", "gz">>, <<"d">>}

\* path.iterdir(): the entries of the directory, once each, in any order.
DirListings ==
    {l \in UNION {[1..n -> EntryNames] : n \in 0..MaxEntries} :
        \A i, j \in 1..Len(l) : i # j => l[i] # l[j]}

FileExtensionLists == SUBSET {".iso", ".gz"}

\* PurePath.suffix: the last dot-separated part with its dot, or nothing.
suffix(name) == IF Len(name) > 1 THEN "." \o name[Len(name)] ELSE ""

\* The return codes gpg gives: 0 only for an entry it is able to sign.
sign_file(name, signable) == IF name \in signable THEN {0, 2} ELSE {2}

\* The loop test written as never repeating the call.
retry_never(return_code) == FALSE

\* while return_code != 0
retry(return_code) == return_code # 0

\* The frame of the signing loop: the mirror and the pass are not involved.
SignFrame ==
    UNCHANGED <<sync_config, scratch, releases, promoted, upstream, mirror, outcome, idx,
                promoDir, buildDir, todo, cur, need, change_state, acc,
                crashes, before, hist>>

CallSignFilesInDir(listing, file_extensions, signable) ==
    /\ pc = "call"
    /\ ret' = [op |-> "sign_files_in_dir", listing |-> listing,
               file_extensions |-> file_extensions, signable |-> signable,
               return_code |-> 0, called |-> {}, failed |-> {}, signed |-> {}]
    /\ pc' = "iterdir"
    /\ ti' = 1
    /\ SignFrame

\* for _file in path.iterdir(): an entry whose suffix is listed enters the
\* retry loop with return_code = 255, any other entry is passed over.
SignNextEntry ==
    /\ pc = "iterdir"
    /\ ti <= Len(ret.listing)
    /\ IF suffix(ret.listing[ti]) \in ret.file_extensions
       THEN /\ ret' = [ret EXCEPT !.return_code = 255]
            /\ pc' = "signing"
            /\ ti' = ti
       ELSE /\ ti' = ti + 1
            /\ UNCHANGED <<pc, ret>>
    /\ SignFrame

\* One round of the while loop: sign_file is called and the loop test is
\* taken on its return code.
SignFile(return_code) ==
    /\ pc = "signing"
    /\ return_code \in sign_file(ret.listing[ti], ret.signable)
    /\ ret' = [ret EXCEPT !.return_code = return_code,
                          !.called = @ \cup {ret.listing[ti]},
                          !.failed = IF return_code # 0
                                     THEN @ \cup {ret.listing[ti]} ELSE @,
                          !.signed = IF return_code = 0
                                     THEN @ \cup {ret.listing[ti]} ELSE @]
    /\ IF retry(return_code)
       THEN UNCHANGED <<pc, ti>>
       ELSE pc' = "iterdir" /\ ti' = ti + 1
    /\ SignFrame

\* The listing is exhausted: sign_files_in_dir returns.
SignReturn ==
    /\ pc = "iterdir"
    /\ ti > Len(ret.listing)
    /\ pc' = "returned"
    /\ UNCHANGED <<ti, ret>>
    /\ SignFrame

NextSign ==
    \/ \E listing \in DirListings, file_extensions \in FileExtensionLists :
          \E signable \in SUBSET {n \in Range(listing) : suffix(n) \in file_extensions} :
             CallSignFilesInDir(listing, file_extensions, signable)
    \/ SignNextEntry
    \/ \E return_code \in {0, 2} : SignFile(return_code)
    \/ SignReturn

SpecSign == InitCall /\ [][NextSign]_vars

\* The process keeps running, and gpg does not fail for ever on an entry it
\* is able to sign.
SpecSignFair ==
    /\ SpecSign
    /\ WF_vars(NextSign)
    /\ SF_vars(SignFile(0))

----------------------------------------------------------------------------
(* Two passes of ProjectFiles.sync for one project at the same time, with   *)
(* temp_in_sync_dir set.  Nothing in sync keeps a second process out.  The  *)
(* specification follows what the two passes share: the scratch roots that  *)
(* are children of the sync directory, and, for one release type, the       *)
(* versions the mirror holds in full.  ret holds, per pass, its position    *)
(* and the index of its version.                                            *)

Passes == {1, 2}

\* The positions at which a pass works in its scratch root.
ScratchInUse == {"version", "staged", "move"}

CallTwoPasses(list, held) ==
    /\ pc = "call"
    /\ ret' = [op |-> "two_passes", promoted |-> list,
               pcs |-> [p \in Passes |-> "start"],
               at |-> [p \in Passes |-> 1],
               roots |-> {}, synced |-> held, was_synced |-> held]
    /\ pc' = "passes"
    /\ SignFrame
    /\ UNCHANGED ti

\* The start-up loop of sync: every child of the sync directory whose name
\* starts with .tmp- is removed.
PassCleanup(p) ==
    /\ pc = "passes"
    /\ ret.pcs[p] = "start"
    /\ ret' = [ret EXCEPT !.pcs[p] = "mkroot", !.roots = {}]
    /\ SignFrame
    /\ UNCHANGED <<pc, ti>>

\* tempfile.TemporaryDirectory(prefix=".tmp-", dir=<sync directory>).
PassScratchRoot(p) ==
    /\ pc = "passes"
    /\ ret.pcs[p] = "mkroot"
    /\ ret' = [ret EXCEPT !.pcs[p] = "version", !.roots = @ \cup {p}]
    /\ SignFrame
    /\ UNCHANGED <<pc, ti>>

\* _sync_version up to the mover: the scratch directories are made in the
\* root (an error if the root is gone), the bundles are downloaded, the
\* mirror is checked, the files are validated in scratch.
PassStage(p) ==
    /\ pc = "passes"
    /\ ret.pcs[p] = "version"
    /\ ret.at[p] <= Len(ret.promoted)
    /\ ret' = IF p \notin ret.roots
              THEN [ret EXCEPT !.pcs[p] = "raised"]
              ELSE IF ret.promoted[ret.at[p]] \in ret.synced
                   THEN [ret EXCEPT !.at[p] = @ + 1]
                   ELSE [ret EXCEPT !.pcs[p] = "staged"]
    /\ SignFrame
    /\ UNCHANGED <<pc, ti>>

\* move_release_type_to_sync_dir, first half: an existing destination
\* directory is removed and made anew.
PassClear(p) ==
    /\ pc = "passes"
    /\ ret.pcs[p] = "staged"
    /\ ret' = [ret EXCEPT !.pcs[p] = "move",
                          !.synced = @ \ {ret.promoted[ret.at[p]]}]
    /\ SignFrame
    /\ UNCHANGED <<pc, ti>>

\* move_release_type_to_sync_dir, second half: the files, the torrent and
\* the sidecar are moved out of scratch (an error if they are gone).
PassMove(p) ==
    /\ pc = "passes"
    /\ ret.pcs[p] = "move"
    /\ ret' = IF p \notin ret.roots
              THEN [ret EXCEPT !.pcs[p] = "raised"]
              ELSE [ret EXCEPT !.pcs[p] = "version", !.at[p] = @ + 1,
                               !.synced = @ \cup {ret.promoted[ret.at[p]]},
                               !.was_synced = @ \cup {ret.promoted[ret.at[p]]}]
    /\ SignFrame
    /\ UNCHANGED <<pc, ti>>

\* The version loop is over: the scratch root is removed on leaving the
\* with block.  The latest pointer and the pruner follow; with the same
\* promoted releases in both passes they agree on what to keep.
PassEnd(p) ==
    /\ pc = "passes"
    /\ ret.pcs[p] = "version"
    /\ ret.at[p] > Len(ret.promoted)
    /\ ret' = [ret EXCEPT !.pcs[p] = "done", !.roots = @ \ {p}]
    /\ SignFrame
    /\ UNCHANGED <<pc, ti>>

\* Both processes have ended.
TwoPassesEnded ==
    /\ pc = "passes"
    /\ \A p \in Passes : ret.pcs[p] \in {"done", "raised"}
    /\ pc' = "returned"
    /\ SignFrame
    /\ UNCHANGED <<ret, ti>>

NextTwoPasses ==
    \/ \E list \in PromotedLists \ {<<>>} :
          \E held \in SUBSET Range(list) : CallTwoPasses(list, held)
    \/ \E p \in Passes : PassCleanup(p)
    \/ \E p \in Passes : PassScratchRoot(p)
    \/ \E p \in Passes : PassStage(p)
    \/ \E p \in Passes : PassClear(p)
    \/ \E p \in Passes : PassMove(p)
    \/ \E p \in Passes : PassEnd(p)
    \/ TwoPassesEnded

SpecTwoPasses == InitCall /\ [][NextTwoPasses]_vars

----------------------------------------------------------------------------
(* Properties.                                                             *)

\* What the mirror holds of a release type at a version, read off the
\* directory entries themselves: the sidecar, the torrent file under the
\* name the sidecar declares, every file the sidecar lists.
HasSidecar(m, t, v) == m[t].exists /\ m[t].entries[<<"json", v>>].kind = "file"
Sidecar(m, t, v) == m[t].entries[<<"json", v>>].desc
HasDeclaredTorrent(m, t, v) ==
    Sidecar(m, t, v).torrent # "none" =>
        m[t].entries[TorrentName(Sidecar(m, t, v).torrent, v)].kind = "file"
HasListedFiles(m, t, v) ==
    \A f \in Sidecar(m, t, v).files :
        /\ m[t].entries[<<"dir", v>>].kind = "dir"
        /\ f \in m[t].entries[<<"dir", v>>].files
Complete(m, t, v) ==
    HasSidecar(m, t, v) /\ HasDeclaredTorrent(m, t, v) /\ HasListedFiles(m, t, v)

\* C4: isSynced(name, version) is true exactly when the sidecar exists, the
\* torrent file it declares (if any) exists in the release type directory
\* and every file it lists exists in the version directory; without a
\* sidecar the answer is false.
C4_IsSyncedExact ==
    ret.op = "is_synced" =>
        /\ ret.val = Complete(mirror, ret.name, ret.version)
        /\ ~HasSidecar(mirror, ret.name, ret.version) => ret.val = FALSE

C4_Witness ==
    /\ ret.op = "is_synced"
    /\ ret.val
    /\ Sidecar(mirror, ret.name, ret.version).torrent = "std"
    /\ Sidecar(mirror, ret.name, ret.version).files = FileNames

\* C5: requiresSync(version) is true exactly when some configured release
\* type is not synced at that version, hence false when all are and false
\* when none is configured.
C5_RequiresSyncExact ==
    ret.op = "requires_sync" =>
        /\ ret.val = (\E t \in Range(releases) : ~Complete(mirror, t, ret.version))
        /\ releases = <<>> => ret.val = FALSE

C5_Witness ==
    /\ ret.op = "requires_sync"
    /\ ret.val
    /\ Len(releases) = 2
    /\ \E t \in Range(releases) : Complete(mirror, t, ret.version)

\* The mover has run to its end for the descriptor of release type cur.
MoverCompleted == pc = "merge" /\ cur \in hist.moved

\* C8: after the mover completes, the version directory holds exactly the
\* files the descriptor names, whatever was at the destination before, and
\* the sidecar and the torrent <name>-<version>.torrent (if a torrent is
\* declared) are entries of the release type directory, not of the version
\* directory.
C8_MoverPostcondition ==
    MoverCompleted =>
        LET version == promoted[idx]
            release == promoDir[cur].desc
            e == mirror[cur].entries
        IN  /\ mirror[cur].exists
            /\ e[<<"dir", version>>] = DirEntry(release.files)
            /\ e[<<"json", version>>] = JsonEntry(release)
            /\ release.torrent # "none" => e[<<"torrent", version>>] = FileEntry

C8_Witness ==
    /\ MoverCompleted
    /\ before[cur].entries[<<"dir", 1>>] = DirEntry({"iso", "iso.sig"})
    /\ promoDir[cur].desc = [files |-> {"iso"}, torrent |-> "std"]

\* C9: for every descriptor that passed validation, whatever torrent file
\* name it declares, the completeness checker answers true for its release
\* type and version right after the mover completes.
C9_MoverCheckerAgreement ==
    MoverCompleted => _is_release_type_synced(mirror, cur, promoted[idx])

\* Entry names present in a release type directory, and the names the
\* pruner is to keep.
NamesPresent(base) == {n \in Names : base.exists /\ base.entries[n].kind # "none"}
ExpectedNames(rel) ==
    {Latest} \cup ({"dir", "json", "torrent"} \X Range(rel))

\* C10: after the pruner returns, every release type directory holds the
\* entry names it held before that are expected (latest, and directory,
\* sidecar and torrent names of the promoted versions), and no others.
C10_PruneExact ==
    pc = "notify" =>
        \A i \in 1..Len(releases) :
            NamesPresent(mirror[releases[i]]) =
                NamesPresent(before[releases[i]]) \cap ExpectedNames(promoted)

\* C1: a pass that follows a completed pass with the same promoted releases
\* and the same upstream changes nothing in the mirror, requests no build
\* bundle and does not call the timestamp notifier.
C1_SecondPassIdle ==
    pc = "done" /\ hist.prev_same =>
        /\ ~hist.mutated
        /\ hist.builds = {}
        /\ ~hist.notified

\* C2: when _sync_version raises for one promoted version, it is still
\* called for every other promoted version, and the latest pointer step and
\* the pruner still run.
C2_ErrorIsolation ==
    pc = "done" /\ outcome \in {"promo", "build", "merge", "validate", "mover"} =>
        /\ Range(hist.calls) = Range(promoted)
        /\ hist.latest_ran
        /\ hist.prune_ran

\* C3: a complete pass that starts on an empty mirror or on what an
\* interrupted pass left, with complete bundles upstream, ends with every
\* configured release type synced at every promoted version, latest
\* pointing at the directory of the greatest promoted version, and the
\* notifier called if the pass changed anything.
C3_Converges ==
    pc = "done" /\ hist.recovering /\ promoted # <<>> =>
        /\ outcome = "ok"
        /\ \A t \in Range(releases) :
              /\ \A v \in Range(promoted) : Complete(mirror, t, v)
              /\ mirror[t].entries[Latest] =
                     LinkEntry(<<"dir", latest_version(promoted)>>)
        /\ hist.mutated => hist.notified

\* Some configured release type is not complete at the version in hand.
RequiresSyncNow ==
    \E t \in Range(releases) : ~Complete(mirror, t, promoted[idx])

MissingFromOutput(release, o) ==
    \/ ~o.json
    \/ release.torrent # "none" /\ "std" \notin o.torrents
    \/ release.torrent # "none" /\ release.torrent \notin o.torrents
    \/ \E f \in release.files : ~o.dir \/ f \notin o.files

\* C7: each descriptor is merged, then validated, then moved; validation
\* raises when the sidecar, the torrent or a listed file is missing from
\* the merged build output, the mover is never started for a release type
\* whose validation raised, and the mirror entry of that release type is
\* as it was.
C7_ValidateBeforeMove ==
    [][/\ pc' = "validate" =>
              /\ pc = "merge"
              /\ buildDir'[cur'] = MergedBuild(promoDir[cur'], buildDir[cur'])
       /\ pc' = "mvClear" =>
              /\ pc = "validate"
              /\ ~MissingFromOutput(promoDir[cur].desc, buildDir[cur])
       /\ pc = "validate" /\ MissingFromOutput(promoDir[cur].desc, buildDir[cur]) =>
              /\ pc' = "done"
              /\ outcome' = "validate"
              /\ mirror'[cur] = before[cur]
              /\ cur \notin hist'.moved
       /\ hist'.moved # hist.moved /\ hist'.moved # {} =>
              /\ pc = "mvClear"
              /\ cur \in hist.validated
              /\ hist'.moved = hist.moved \cup {cur}]_vars

C7_Witness ==
    /\ pc = "done"
    /\ outcome = "validate"
    /\ cur = "a"
    /\ hist.moved = {"b"}
    /\ mirror["a"] = before["a"]

\* C11: with promoted releases, whatever the entry latest was before (absent,
\* a link to the expected directory, to another directory, to a plain file
\* or to nothing, a plain file, a plain directory), the latest pointer step
\* raises nothing and leaves latest a link to the directory of the greatest
\* promoted version, for every configured release type.
C11_LatestFromAnyState ==
    /\ pc = "done" => outcome # "latest"
    /\ pc = "prune" /\ promoted # <<>> =>
          \A t \in Range(releases) :
              mirror[t].entries[Latest] =
                  LinkEntry(<<"dir", latest_version(promoted)>>)

\* C12: at the end of a pass that raised nothing, the entry latest of every
\* configured release type, if present, resolves to an existing directory,
\* the one of the greatest promoted version.
C12_LatestNeverDangles ==
    pc = "done" /\ outcome = "ok" =>
        \A t \in Range(releases) :
            mirror[t].exists /\ mirror[t].entries[Latest].kind # "none" =>
                /\ promoted # <<>>
                /\ mirror[t].entries[Latest] =
                       LinkEntry(<<"dir", latest_version(promoted)>>)
                /\ PathIsDir(mirror[t], Latest)

IsPrefix(s, t) == Len(s) <= Len(t) /\ \A i \in 1..Len(s) : s[i] = t[i]
LatestPcs == {"latest", "latestMk"}

\* C13: _sync_version is called once per promoted release, in the order of
\* the list; the latest pointer step is entered only when all these calls
\* have returned, the pruner only after it, each once, and no per-version
\* work follows them.
C13_OrchestrationOrder ==
    [][/\ IsPrefix(hist'.calls, promoted')
       /\ hist'.calls # hist.calls /\ hist'.calls # <<>> =>
              /\ pc = "promo"
              /\ hist'.calls = Append(hist.calls, promoted[idx])
              /\ ~hist.latest_ran /\ ~hist.prune_ran
       /\ pc' \in LatestPcs /\ pc \notin LatestPcs =>
              /\ hist'.calls = promoted'
              /\ Len(change_state') = Len(promoted')
              /\ ~hist'.prune_ran
       /\ pc \in LatestPcs => pc' \in LatestPcs \cup {"prune", "done"}
       /\ pc' = "prune" => pc \in {"latest", "prune"} /\ hist'.latest_ran
       /\ pc = "prune" => pc' \in {"prune", "notify", "done"}
       /\ pc' = "notify" =>
              /\ hist'.calls = promoted'
              /\ hist'.latest_ran /\ hist'.prune_ran]_vars

C13_Witness ==
    /\ pc = "notify"
    /\ Len(promoted) = 2
    /\ hist.calls = promoted
    /\ hist.builds = Range(promoted)

\* C14: the timestamp notifier is called only at the end of the pass, and
\* it is called exactly when one of the collected booleans (one per
\* promoted release, one of the latest pointer step, one of the pruner) is
\* true.
C14_NotifierExact ==
    [][/\ hist'.notified /\ ~hist.notified => pc = "notify" /\ pc' = "done"
       /\ pc = "notify" =>
              /\ Len(change_state) = Len(promoted) + 2
              /\ hist'.notified = (\E i \in 1..Len(change_state) : change_state[i])
       /\ pc' = "done" /\ pc # "notify" => ~hist'.notified]_vars

C14_Witness ==
    /\ pc = "done"
    /\ outcome = "ok"
    /\ hist.notified
    /\ change_state = <<FALSE, TRUE, FALSE>>

\* The change notification file was rewritten in this pass.
Stamped == hist.notified /\ sync_config.last_updated_file

\* C15: with a change notification file configured, a pass that changed the
\* mirror has rewritten the file and a pass that changed nothing has not.
C15_NotificationTracksChange ==
    pc = "done" /\ sync_config.last_updated_file => (Stamped <=> hist.mutated)

\* C16: when the first _sync_version call of a pass begins, no scratch
\* directory of an interrupted pass is left, in the sync directory or in the
\* temporary directory, and the cleanup has removed nothing else from the
\* sync directory.
C16_StaleScratchRemoved ==
    pc = "promo" /\ hist.calls = <<>> =>
        /\ ~scratch.sync
        /\ ~scratch.tmp
        /\ mirror = before

SyncPcs == {"promo", "check", "build", "merge", "validate", "mvClear",
            "mvMkdir", "mvFiles", "mvTorrent", "mvJson"}

\* What was synced when the operation in progress began is synced in m.
StillSynced(m) ==
    \A t \in TypeNames, v \in Versions :
        _is_release_type_synced(before, t, v) => _is_release_type_synced(m, t, v)

\* C17: a release type synced at a version before a _sync_version call, a
\* mover call, the stale scratch cleanup or the latest pointer step is
\* synced at that version when the operation has ended, returned or raised.
C17_SyncedStaysSynced ==
    [][/\ pc \in SyncPcs /\ pc' \in {"promo", "latest", "done"} => StillSynced(mirror')
       /\ pc = "mvJson" /\ pc' = "merge" => StillSynced(mirror')
       /\ pc \in {"idle", "done"} /\ pc' \notin {"idle", "done"} =>
              mirror' = mirror
       /\ pc \in LatestPcs /\ pc' \in {"prune", "done"} => StillSynced(mirror')]_vars

C17_Witness ==
    /\ MoverCompleted
    /\ hist.prev_same
    /\ _is_release_type_synced(before, cur, promoted[idx])
    /\ _is_release_type_synced(mirror, cur, promoted[idx])

\* C18: while the mover replaces a complete copy of a release type at a
\* version, the mirror holds a complete copy of it at every intermediate
\* point.
C18_AtomicReplacement ==
    pc \in {"mvMkdir", "mvFiles", "mvTorrent", "mvJson"}
        /\ _is_release_type_synced(before, cur, promoted[idx]) =>
            _is_release_type_synced(mirror, cur, promoted[idx])

C20_EmptyPromotedSet ==
    pc = "done" /\ promoted = <<>> =>
        /\ outcome = "ok"
        /\ ~hist.mutated
        /\ hist.latest_ran /\ hist.prune_ran
        /\ ~hist.notified

\* C21: with no promoted release the latest pointer step is one step that
\* returns false and leaves the mirror, every entry latest included (link,
\* plain file or directory), as it was.
C21_EmptySetLeavesLatest ==
    [][pc = "latest" /\ promoted = <<>> =>
          /\ pc' = "prune"
          /\ mirror' = mirror
          /\ change_state' = Append(change_state, FALSE)]_vars

C21_Witness ==
    /\ pc = "prune"
    /\ promoted = <<>>
    /\ change_state = <<FALSE>>
    /\ mirror["a"].entries[Latest] = DirEntry({})
    /\ mirror["b"].entries[Latest].kind = "link"

\* The entry latest of every configured release type is a link to the
\* directory of the greatest promoted version.
AllLatestExpected(m) ==
    \A t \in Range(releases) :
        /\ m[t].exists
        /\ m[t].entries[Latest] = LinkEntry(<<"dir", latest_version(promoted)>>)

LatestChanged(m0, m1) ==
    \E t \in Range(releases) : m1[t].entries[Latest] # m0[t].entries[Latest]

\* C22: the latest pointer step returns true exactly when the entry latest
\* of some release type was created or replaced; when every entry latest
\* already is a link to the expected directory the step returns false and
\* changes nothing, so a second call in a row raises nothing and returns
\* false.
C22_LatestReturnValue ==
    /\ pc = "prune" /\ change_state # <<>> /\ hist.latest_ran =>
          (change_state[Len(change_state)] <=> hist.mutated)
    /\ pc \in {"latest", "latestMk", "prune"}
          /\ promoted # <<>> /\ AllLatestExpected(before) =>
          mirror = before /\ ~acc
    /\ pc = "done" /\ outcome = "latest" => ~AllLatestExpected(before)

\* The first piece of the name is the given one.
NameStartsWith(name, part) == name[1] = part

\* C23: remove_temp_dir raises and removes nothing when the path is no
\* directory or its name does not begin with the reserved prefix; it removes
\* the directory only when the name begins with the prefix.
C23_RemoveTempDirGuard ==
    ret.op = "remove_temp_dir" =>
        /\ ret.kind # "dir" \/ ~NameStartsWith(ret.name, TEMP_DIR_PREFIX) =>
              ret.val.raised /\ ~ret.val.removed
        /\ ret.val.removed => NameStartsWith(ret.name, TEMP_DIR_PREFIX)

\* The positions (release, link) of the links named "Promotion artifact" of
\* the releases of the listing that carry the tag.
PromotionLinksOf(listing, tag_name) ==
    {p \in (1..Len(listing)) \X (1..MaxLinks) :
        /\ listing[p[1]].tag_name = tag_name
        /\ p[2] <= Len(listing[p[1]].links)
        /\ listing[p[1]].links[p[2]].name = PromotionLinkName}

\* C24: download_promotion_artifact raises, and downloads nothing, unless
\* exactly one link named "Promotion artifact" exists among the releases
\* carrying the tag; with exactly one it downloads that link's URL to
\* promotion.zip in the scratch directory and returns that path.
C24_PromotionArtifactExactlyOne ==
    ret.op = "download_promotion_artifact" =>
        LET found == PromotionLinksOf(ret.listing, ret.tag_name)
        IN  IF Cardinality(found) = 1
            THEN LET p == CHOOSE q \in found : TRUE
                 IN  /\ ~ret.val.raised
                     /\ ret.val.url = ret.listing[p[1]].links[p[2]].url
                     /\ ret.val.file = "promotion.zip"
            ELSE /\ ret.val.raised
                 /\ ret.val.url = "none"
                 /\ ret.val.file = "none"

C24_Witness ==
    /\ ret.op = "download_promotion_artifact"
    /\ Cardinality(PromotionLinksOf(ret.listing, ret.tag_name)) = 2
    /\ ret.val.raised

\* The positions of the listing whose release has (wanted) or lacks (not
\* wanted) a link named "Promotion artifact".
Matching(listing, wanted) ==
    {i \in 1..Len(listing) : has_promotion_link(listing[i]) = wanted}

\* tags holds the tags of the first n matching releases, in listing order.
IsFirstMatching(tags, listing, wanted, n) ==
    LET M == Matching(listing, wanted)
        k == IF Cardinality(M) < n THEN Cardinality(M) ELSE n
    IN  /\ Len(tags) = k
        /\ \A j \in 1..k :
              \E i \in M : /\ Cardinality({h \in M : h < i}) = j - 1
                           /\ tags[j] = listing[i].tag_name

\* C26: get_releases answers with the tags of the first max_releases
\* releases that have (promoted) or lack (not promoted) a link named
\* "Promotion artifact", in listing order, never more than max_releases of
\* them, and the two answers share no tag.
C26_GetReleasesBounded ==
    ret.op = "get_releases" =>
        /\ IsFirstMatching(ret.val.promoted, ret.listing, TRUE, ret.max_releases)
        /\ IsFirstMatching(ret.val.other, ret.listing, FALSE, ret.max_releases)
        /\ Len(ret.val.promoted) <= ret.max_releases
        /\ Len(ret.val.other) <= ret.max_releases
        /\ Range(ret.val.promoted) \cap Range(ret.val.other) = {}

C26_Witness ==
    /\ ret.op = "get_releases"
    /\ ret.max_releases = 1
    /\ Cardinality(Matching(ret.listing, TRUE)) = 2
    /\ ret.val.promoted = <<ret.listing[1].tag_name>>

\* C25: when the build bundle of the version being synchronised is absent
\* upstream, the download raises nothing and the version is skipped: its
\* _sync_version call returns, with the mirror as it was when the call began.
C25_AbsentBuildSkipsVersion ==
    /\ pc = "done" => outcome # "build"
    /\ \A version \in hist.builds :
          /\ ~upstream[version].has_build
          /\ hist.calls[Len(hist.calls)] = version
          /\ pc \in {"done", "promo", "latest"}
          => mirror = before

\* The versions whose directory is present in a release type directory.
VersionDirs(base) == {v \in Versions : base.entries[<<"dir", v>>].kind # "none"}
VersionSidecars(base) == {v \in Versions : base.entries[<<"json", v>>].kind # "none"}

\* C27: at the end of a pass that raised nothing, every configured release
\* type directory holds at most backlog version directories, and every
\* version directory and sidecar in it is that of a promoted release.
C27_BoundedMirror ==
    pc = "done" /\ outcome = "ok" =>
        \A t \in Range(releases) :
            /\ Cardinality(VersionDirs(mirror[t])) <= sync_config.backlog
            /\ VersionDirs(mirror[t]) \cup VersionSidecars(mirror[t])
                   \subseteq Range(promoted)

C27_Witness ==
    /\ pc = "done"
    /\ outcome = "ok"
    /\ sync_config.backlog = 1
    /\ promoted = <<2>>
    /\ VersionDirs(before["a"]) = {1, 2}
    /\ VersionSidecars(before["a"]) = {1, 2}
    /\ VersionDirs(mirror["a"]) = {2}
    /\ VersionSidecars(mirror["a"]) = {2}

\* C28: in every state of the mirror where the checker answers that a
\* release type is synced for a version, the sidecar and the version
\* directory both exist, also when the descriptor lists no files.
C28_SidecarDirectoryPairing ==
    \A t \in TypeNames, v \in Versions :
        _is_release_type_synced(mirror, t, v) =>
            /\ PathIsFile(mirror[t], <<"json", v>>)
            /\ PathIsDir(mirror[t], <<"dir", v>>)

\* The value a key has in a sync_config table, as a sequence of one value;
\* the empty sequence when the table or the key is absent.
Unset == <<>>
RawValue(table, key) ==
    IF table = <<>> THEN Unset
    ELSE LET v == table[1][key]
         IN  IF key = "backlog"
             THEN v
             ELSE IF key = "temp_in_sync_dir"
             THEN (IF v = None THEN Unset ELSE <<v = "true">>)
             ELSE (IF v = None THEN Unset ELSE <<v>>)

\* A field of a validated sync_config, as a sequence of one value.
FieldValue(config, key) ==
    IF key = "backlog" THEN config.backlog ELSE <<config[key]>>

\* Project value, else global value, else built-in default.
Precedence(project, global, key) ==
    IF RawValue(project, key) # Unset THEN RawValue(project, key)
    ELSE IF RawValue(global, key) # Unset THEN RawValue(global, key)
    ELSE FieldValue(default_sync_config, key)

\* C29: after validation every field of a project's sync_config is the
\* project's own value when the project sets it, else the global value when
\* that is set, else the built-in default.
C29_SyncConfigPrecedence ==
    ret.op = "validate_projects" =>
        \A key \in {"directory", "backlog", "last_updated_file", "temp_in_sync_dir"} :
            FieldValue(ret.val, key) = Precedence(ret.project, ret.global, key)

\* Two release types, of one project or of two, have the same name.
SharedName(projects) ==
    \E i, j \in 1..Len(projects) :
        \E k \in 1..Len(projects[i]) : \E l \in 1..Len(projects[j]) :
            /\ <<i, k>> # <<j, l>>
            /\ projects[i][k] = projects[j][l]

\* C30: the validator of the project list raises exactly when two release
\* types share a name, and otherwise returns the list as it was given.
C30_ReleaseTypeNamesUnique ==
    ret.op = "validate_project_releases_unique" =>
        /\ ret.val.raised <=> SharedName(ret.projects)
        /\ ~ret.val.raised => ret.val.projects = ret.projects

C30_Witness ==
    /\ ret.op = "validate_project_releases_unique"
    /\ ret.projects = <<(<<"a", "b">>), (<<"c", "a">>)>>
    /\ ret.val.raised

JustReturned ==
    /\ pc \in {"promo", "latest"}
    /\ idx > 1
    /\ Len(change_state) = idx - 1
    /\ pc = "latest" => ti = 1 /\ ~hist.latest_ran

\* C32: when _sync_version returns true for a version, no configured release
\* type requires a sync of that version right afterwards.
C32_SyncCompletesVersion ==
    JustReturned /\ change_state[idx - 1] =>
        ~_project_version_requires_sync(mirror, releases, promoted[idx - 1])

MoverPcs == {"mvClear", "mvMkdir", "mvFiles", "mvTorrent", "mvJson"}

\* C33: while the mover works on a release type and version that had no
\* sidecar in the mirror before, the listed files are placed first, then the
\* torrent, and the sidecar last, and the completeness checker answers false
\* for that type and version at every point before the last step.
C33_SidecarLast ==
    pc \in MoverPcs /\ ~PathExists(before[cur], <<"json", promoted[idx]>>) =>
        LET version == promoted[idx]
            release == promoDir[cur].desc
            e == mirror[cur].entries
        IN  /\ ~_is_release_type_synced(mirror, cur, version)
            /\ e[<<"json", version>>] = before[cur].entries[<<"json", version>>]
            /\ pc \in {"mvClear", "mvMkdir", "mvFiles"} =>
                  e[<<"torrent", version>>] =
                      before[cur].entries[<<"torrent", version>>]
            /\ pc \in {"mvTorrent", "mvJson"} =>
                  e[<<"dir", version>>] = DirEntry(release.files)
            /\ pc = "mvJson" /\ release.torrent # "none" =>
                  e[<<"torrent", version>>] = FileEntry

C33_Witness ==
    /\ pc = "mvJson"
    /\ ~PathExists(before[cur], <<"json", promoted[idx]>>)
    /\ promoDir[cur].desc = [files |-> {"iso", "iso.sig"}, torrent |-> "std"]
    /\ mirror[cur].entries[<<"dir", promoted[idx]>>] = DirEntry({"iso", "iso.sig"})
    /\ mirror[cur].entries[<<"torrent", promoted[idx]>>] = FileEntry
    /\ ~_is_release_type_synced(mirror, cur, promoted[idx])

\* The release to promote had no link named "Promotion artifact" when
\* promote_project_release was called.
NotYetPromoted ==
    artifact_links(ret.given, 1, ret.tag_name) = <<>>

\* C34: promote_project_release, called for a release that is not promoted
\* yet, completes for a project of one or more release types, and the
\* release then carries exactly one link named "Promotion artifact":
\* get_releases(promoted=True) lists it and download_promotion_artifact
\* raises nothing for its tag.
C34_PromotionSyncCompatible ==
    ret.op = "promote_project_release" /\ pc = "returned" /\ NotYetPromoted =>
        /\ ~ret.raised
        /\ Len(artifact_links(ret.listing, 1, ret.tag_name)) = 1
        /\ ret.tag_name \in Range(get_releases(ret.listing, Len(ret.listing), TRUE))
        /\ ~download_promotion_artifact(ret.listing, ret.tag_name).raised

\* C35: a pass creates, replaces and deletes nothing under a subdirectory of
\* the sync directory that is not named after a configured release type,
\* whatever descriptors the promotion bundle holds.
C35_OwnReleaseTypesOnly ==
    [][\A t \in TypeNames \ Range(releases) : mirror'[t] = mirror[t]]_vars

\* No scratch directory of a version exists.
NoVersionScratch == promoDir = NoPromoDir /\ buildDir = NoBuildDir

\* C36: when a pass has ended, by returning or by an error raised in a
\* version sync, no scratch directory is left; the latest pointer step and
\* the pruner run with the scratch directories gone; and no release type
\* directory ever holds an entry that is not latest, a version directory, a
\* sidecar or a torrent.
C36_ScratchNeverOutlivesPass ==
    /\ pc = "done" => NoVersionScratch /\ scratch = NoScratch
    /\ pc \in LatestPcs \cup {"prune", "notify"} =>
          NoVersionScratch /\ ~InScratchScope(pc)
    /\ \A t \in TypeNames : mirror[t].entries[Other].kind = "none"

C36_Witness ==
    /\ pc = "done"
    /\ outcome = "validate"
    /\ hist.builds # {}
    /\ NoVersionScratch

\* The entries of the listing whose suffix is among the extensions.
ToSign == {n \in Range(ret.listing) : suffix(n) \in ret.file_extensions}

\* The entries to sign among the first k of the listing.
ToSignBefore(k) ==
    {ret.listing[i] : i \in {j \in 1..Len(ret.listing) :
                                j < k /\ suffix(ret.listing[j]) \in ret.file_extensions}}

InSigning == ret.op = "sign_files_in_dir"

\* What holds in every state of the signing loop.
SigningLoopSafe ==
    InSigning =>
       /\ ret.called \subseteq ToSign
       /\ ret.signed = ToSignBefore(ti)
       /\ ret.called \subseteq ToSignBefore(ti + 1)
       /\ pc = "iterdir" => ret.called = ret.signed
       /\ pc = "returned" => ret.signed = ToSign /\ ret.called = ToSign
       /\ pc = "returned" => ToSign \subseteq ret.signable

\* C37: sign_files_in_dir calls sign_file for the entries whose suffix is
\* listed and for no other, stays with an entry until a call returns 0 and
\* only then moves on, has returned only when every such entry has had a
\* successful call (so never when gpg cannot sign one of them), and does
\* return when gpg eventually succeeds for each of them.
C37_SigningRetryLoop ==
    /\ []SigningLoopSafe
    /\ (InSigning /\ ToSign \subseteq ret.signable) ~> (pc = "returned")

C37_Witness ==
    /\ InSigning
    /\ pc = "returned"
    /\ Cardinality(ret.signed) >= 2
    /\ ret.signed \cap ret.failed # {}
    /\ Range(ret.listing) # ToSign

\* C38: with two passes of one project running at once and scratch in the
\* sync directory, the scratch root of a pass that is at work is always
\* there (the other pass's start-up cleanup has not removed it), and when
\* both passes have ended every version that was synced is synced.
C38_TwoPassesSafe ==
    ret.op = "two_passes" =>
       /\ \A p \in Passes : ret.pcs[p] \in ScratchInUse => p \in ret.roots
       /\ pc = "returned" => ret.was_synced \subseteq ret.synced

====
